---- MODULE Spec2Model ----
(***************************************************************************)
(* Verification model of the content-api task-orchestration engine:        *)
(* the dual-queue (data-dependency + API-retry) scheduler of               *)
(* main.py / helpers/extract_helpers.py, the prompt resolver and           *)
(* get-or-create output store of helpers/enhance_helpers.py, the           *)
(* generation invoker of services/generative_analysis_service.py and the   *)
(* batch endpoints of main.py.                                             *)
(*                                                                         *)
(* Time is a coarse discrete clock.  One tick is a large fraction of       *)
(* retry_cooldown_seconds (default 60 s), far above the 0.05 s / 0.1 s     *)
(* yields of the loop, so a short yield or a model call advances the       *)
(* clock by 0..MaxStep ticks.  The scheduler only ever reads               *)
(* time.monotonic() - last_rate_limit_event_time, so the model keeps that  *)
(* difference (saturated at the cooldown) instead of the two timestamps.   *)
(***************************************************************************)
EXTENDS Integers, Sequences, FiniteSets, TLC

\* ------------------------------------------------------------------ bounds
MaxItems == 2          \* content items (slides / lessons) per request
MaxApiRetries == 3     \* largest settings.max_api_retries explored
MaxDDRetries == 2      \* largest settings.max_data_dependency_retries explored
CooldownTicks == 2     \* the non-zero settings.retry_cooldown_seconds, in ticks
MaxStep == 1           \* most ticks one yield or one model call may take

\* ------------------------------------------------------- program constants
EnhanceCycleSlack == 5
ExtractCycleSlack == 2

\* Python's None, for the optional string fields.
None == "<None>"
\* last_rate_limit_event_time is None: no elapsed time is defined.
NoEvent == 0 - 1

Min(a, b) == IF a < b THEN a ELSE b

\* ------------------------------------------------------------------ strings
\* str.strip() on the literals the model uses.
Strip(s) ==
    CASE s = " T1 " -> "T1"
      [] s = "T2\n" -> "T2"
      [] s = "   "  -> ""
      [] s = " lorem " -> "lorem"
      [] OTHER -> s

\* prop_key.replace("_", " ").title() on the keys the model uses.
TitleCase(key) ==
    CASE key = "grade_level" -> "Grade Level"
      [] key = "content" -> "Content"
      [] key = "p1" -> "P1"
      [] key = "p2" -> "P2"
      [] key = "nope" -> "Nope"
      [] OTHER -> key

\* ---------------------------------------------------------------- prompts
PromptNames == {"p1", "p2", "content"}

PromptItem(name, template, deps) ==
    [prompt_name |-> name, prompt_template |-> template,
     lesson_properties_to_append |-> deps]

P1 == PromptItem("p1", " T1 ", <<>>)
P1content == PromptItem("p1", " T1 ", <<"content", "nope">>)
P1needs2 == PromptItem("p1", " T1 ", <<"p2">>)
P2 == PromptItem("p2", "T2\n", <<"grade_level">>)
P2needs1 == PromptItem("p2", "T2\n", <<"p1">>)
P2needs1late == PromptItem("p2", "T2\n", <<"content", "p1">>)
Pcontent == PromptItem("content", " T1 ", <<>>)
P2needsContent == PromptItem("p2", "T2\n", <<"content">>)

\* The prompt lists of the requests explored (request.prompts).
Requests ==
    { <<P1>>, <<P1content, P2>>, <<P1, P2needs1>>, <<P2needs1late, P1content>>,
      <<P1needs2, P2needs1>>, <<Pcontent, P2needsContent>> }

\* A GeneratedContentItem.
GeneratedContentItem(name, out, st) ==
    [prompt_name |-> name, output |-> out, status |-> st]

\* generated_outputs lists a request may already carry on an item.
InitialOutputs ==
    { <<>>,
      <<GeneratedContentItem("p1", "old", "SUCCESS")>>,
      <<GeneratedContentItem("p1", None, None),
        GeneratedContentItem("p1", "old", "SUCCESS")>> }

\* A Slide / LessonSimple: content, model_extra keys and generated_outputs.
ContentItem(outs) ==
    [content |-> " lorem ", model_extra |-> [k \in {"grade_level"} |-> "5"],
     generated_outputs |-> outs]

\* The ExtractionContext of an extract task: no content field, no extras.
ExtractionContext ==
    [content |-> None, model_extra |-> [k \in {} |-> "5"],
     generated_outputs |-> <<>>]

\* --------------------------------------------------------------- resolver
\* A prompt text: the stripped template followed by the appended fragments
\* f"---\n{label}:\n{value}"; "\n".join(parts) is determined by the two.
PromptText(template, fragments) ==
    [template |-> template, fragments |-> fragments]

\* The Optional[str] None a failed construction returns.
NoText == PromptText(None, <<>>)

Fragment(label, value) == [label |-> label, value |-> value]

\* Index of the first GeneratedContentItem named `name`, 0 when there is none
\* (the `for ... if item.prompt_name == ...: ... break` scans).
FindOutput(outs, name) ==
    IF \E i \in 1..Len(outs) : outs[i].prompt_name = name
    THEN CHOOSE i \in 1..Len(outs) :
            /\ outs[i].prompt_name = name
            /\ \A j \in 1..(i - 1) : outs[j].prompt_name # name
    ELSE 0

\* Mutant of DependencyMet: the status of the prior output is not looked at.
DependencyMetIgnoringStatus(gen_output) == gen_output.output # None

\* `gen_output.status == "SUCCESS" and gen_output.output is not None`
DependencyMet(gen_output) ==
    gen_output.status = "SUCCESS" /\ gen_output.output # None

\* Mutant of AppendProperties: a reference that resolves to nothing fails the
\* construction.
RECURSIVE AppendPropertiesStrict(_, _, _, _, _, _, _)
AppendPropertiesStrict(k, deps, item, known, text, content_key, out_label) ==
    IF k > Len(deps) THEN [status |-> "SUCCESS", text |-> text]
    ELSE
      LET key == deps[k]
          outs == item.generated_outputs
          idx == FindOutput(outs, key)
          next(frag) ==
              AppendPropertiesStrict(k + 1, deps, item, known,
                  PromptText(text.template, Append(text.fragments, frag)),
                  content_key, out_label)
          missing == [status |-> "MISSING_DEPENDENCY", text |-> NoText]
      IN  IF key = content_key
          THEN next(Fragment("Content", Strip(item.content)))
          ELSE IF key \in known
          THEN IF idx = 0 THEN missing
               ELSE IF DependencyMet(outs[idx])
               THEN next(Fragment(out_label[1] \o key \o out_label[2],
                                  Strip(outs[idx].output)))
               ELSE missing
          ELSE IF key \in DOMAIN item.model_extra
          THEN next(Fragment(TitleCase(key), Strip(item.model_extra[key])))
          ELSE missing

\* The body of the `for prop_key_to_append in ...` loop of both resolvers, from
\* dependency k on.  content_key is "content" for _construct_full_prompt and
\* None for _construct_extraction_prompt, which has no content branch;
\* out_label is what the label of a prior prompt's output puts around its name.
RECURSIVE AppendProperties(_, _, _, _, _, _, _)
AppendProperties(k, deps, item, known, text, content_key, out_label) ==
    IF k > Len(deps) THEN [status |-> "SUCCESS", text |-> text]
    ELSE
      LET key == deps[k]
          outs == item.generated_outputs
          idx == FindOutput(outs, key)
          next(frag) ==
              AppendProperties(k + 1, deps, item, known,
                  PromptText(text.template, Append(text.fragments, frag)),
                  content_key, out_label)
          skip == AppendProperties(k + 1, deps, item, known, text,
                                   content_key, out_label)
          missing == [status |-> "MISSING_DEPENDENCY", text |-> NoText]
      IN  IF key = content_key
          THEN next(Fragment("Content", Strip(item.content)))
          ELSE IF key \in known
          THEN IF idx = 0 THEN missing
               ELSE IF DependencyMet(outs[idx])
               THEN next(Fragment(out_label[1] \o key \o out_label[2],
                                  Strip(outs[idx].output)))
               ELSE missing
          ELSE IF key \in DOMAIN item.model_extra
          THEN next(Fragment(TitleCase(key), Strip(item.model_extra[key])))
          ELSE skip

KnownPromptNames(all_prompts) ==
    { all_prompts[i].prompt_name : i \in 1..Len(all_prompts) }

_construct_full_prompt(prompt_item, item, all_request_prompts) ==
    AppendProperties(1, prompt_item.lesson_properties_to_append, item,
        KnownPromptNames(all_request_prompts),
        PromptText(Strip(prompt_item.prompt_template), <<>>),
        "content", <<"Output from '", "'">>)

_construct_extraction_prompt(prompt_item, extraction_ctx, all_task_prompts) ==
    AppendProperties(1, prompt_item.lesson_properties_to_append, extraction_ctx,
        KnownPromptNames(all_task_prompts),
        PromptText(Strip(prompt_item.prompt_template), <<>>),
        None, <<"Previously Extracted Data ('", "')">>)

\* ------------------------------------------------------------ output store
\* Mutant of get_or_create_output_item: a new item is appended on every call.
\* get_or_create_output_item / get_extraction_output_item: the list after the
\* call (a new GeneratedContentItem(prompt_name) appended when none matches).
get_or_create_always_appends(outs, prompt_name) ==
    Append(outs, GeneratedContentItem(prompt_name, None, None))

get_or_create_output_item(outs, prompt_name) ==
    IF FindOutput(outs, prompt_name) # 0 THEN outs
    ELSE Append(outs, GeneratedContentItem(prompt_name, None, None))

\* The output item get_or_create returns, with status and output assigned.
WriteOutput(outs, prompt_name, st, out) ==
    LET created == get_or_create_output_item(outs, prompt_name)
        idx == FindOutput(created, prompt_name)
    IN  [created EXCEPT ![idx] = GeneratedContentItem(prompt_name, out, st)]

\* _get_prompt_status
_get_prompt_status(outs, prompt_name) ==
    IF FindOutput(outs, prompt_name) = 0 THEN None
    ELSE outs[FindOutput(outs, prompt_name)].status

\* ------------------------------------------------------- generation invoker
\* What self.model.generate_content does: returns a response with text,
\* returns a response without text, or raises.
ModelTexts == {"lorem", "SUCCESS", "RATE_LIMIT"}

ModelOutcome(kind, text) == [kind |-> kind, text |-> text]

ModelOutcomes ==
    { ModelOutcome("text", t) : t \in ModelTexts }
    \cup { ModelOutcome(k, "") :
             k \in {"empty", "ResourceExhausted", "GoogleAPIError", "Exception"} }

\* The argument handed to generate_text: a str (enhance) or the list
\* [uploaded_target_gfile, final_instructions] (extract).
StrArg(text) == [is_str |-> TRUE, text |-> text]
ListArg(text) == [is_str |-> FALSE, text |-> text]

\* not prompt_text.strip()
IsBlank(text) == text.fragments = <<>> /\ Strip(text.template) = ""

InvokerResult(raised, st, out) ==
    [raised |-> raised, status |-> st, output |-> out]

\* GenerativeAnalysisService.generate_text: the (first, second) tuple returned,
\* which the callers unpack as (status, api_output_data).  A list argument is
\* truthy and has no strip(): the AttributeError is raised before the try.
generate_text(prompt_arg, outcome) ==
    IF ~prompt_arg.is_str THEN InvokerResult(TRUE, None, "AttributeError")
    ELSE IF IsBlank(prompt_arg.text)
    THEN InvokerResult(FALSE, "ERROR_INPUT", "Empty or invalid prompt text provided.")
    ELSE CASE outcome.kind = "text" -> InvokerResult(FALSE, outcome.text, None)
           [] outcome.kind = "empty" ->
                InvokerResult(FALSE, "ERROR_NO_RESPONSE", "No text was generated in the response.")
           [] outcome.kind = "ResourceExhausted" ->
                InvokerResult(FALSE, "ERROR_RESOURCE_EXHAUSTED", "Resource exhausted")
           [] outcome.kind = "GoogleAPIError" ->
                InvokerResult(FALSE, "ERROR_GOOGLE_API", "Google API error")
           [] OTHER ->
                InvokerResult(FALSE, "ERROR_API", "Unexpected error during API call")

\* --------------------------------------------------------------- scheduler
VARIABLES
    endpoint,                         \* "enhance" (/enhance/units, /enhance/lessons) or "extract"
    active_prompts,                   \* request.prompts / extract_task_item.prompts
    request_items,                    \* the items as the request carries them
    items,                            \* enhanced_*_output / extraction_ctx: the working copies
    max_api_retries,                  \* settings.max_api_retries
    max_data_dependency_retries,      \* settings.max_data_dependency_retries
    retry_cooldown_seconds,           \* settings.retry_cooldown_seconds, in ticks
    data_dependency_deferred_queue,
    api_retry_queue,
    since_rate_limit_event,           \* time.monotonic() - last_rate_limit_event_time, or NoEvent
    processing_cycles,
    pc,                               \* "loop", "calling" (awaiting generate_text), "done"
    call,                             \* the generation call in flight
    result_success,                   \* success flag of the result returned
    api_calls,                        \* history: generation calls started, per (item, prompt)
    only_rate_limit,                  \* history: every call of the pair returned RATE_LIMIT
    since_rate_limit_status,          \* history: ticks since a call last returned RATE_LIMIT
    every_call_succeeded,             \* history: the model gave usable text in every call so far
    last_return                       \* history: the generation call that returned last

\* A batch endpoint of main.py (/extract, /analyze, /split).
VARIABLES
    batch_endpoint,                   \* which endpoint handles the batch
    requests,                         \* the targets of the batch, in input order
    target_fate,                      \* what each target's processing runs into
    target_state,                     \* "unborn", "running", "finished" per target
    target_result,                    \* the Batch*ItemResult each target returned
    finish_order,                     \* history: the targets in the order they finished
    batch_pc,                         \* "build", "gather", "returned", "raised"
    batch_results                     \* the list the endpoint returns

batch_vars ==
    <<batch_endpoint, requests, target_fate, target_state, target_result,
      finish_order, batch_pc, batch_results>>

\* One call of a prompt resolver on an item.
VARIABLES
    rs_resolver,                      \* "enhance" or "extract": which resolver is called
    rs_prompts,                       \* all_request_prompts / all_task_prompts
    rs_item,                          \* the item (or extraction context) the resolver is called on
    rs_prompt,                        \* index of the prompt resolved, 0 before the call
    rs_result                         \* the (status, text) returned, or Unresolved

resolver_vars ==
    <<rs_resolver, rs_prompts, rs_item, rs_prompt, rs_result>>

\* Scheduler runs in flight at the same time on one event loop: every coroutine
\* call of an endpoint (or of process_single_extract_task) has its own locals.
VARIABLES
    inst,                             \* per run: its queues, cooldown clock, cycle counter, position
    acting                            \* history: the run that took the last step, 0 for the clock

instance_vars == <<inst, acting>>

\* One call of process_extract_request_concurrent.
VARIABLES
    cx_sections,                      \* request.sections: the result each section holds
    cx_download_ok,                   \* the original PDF could be downloaded
    cx_split_ok,                      \* the splitter can open the original PDF
    cx_uploaded,                      \* per section: its PDF was uploaded to the provider
    cx_pc,                            \* "start", "build", "gather", "except", "returned", "raised"
    cx_files,                         \* extraction_ctx.section_gemini_files: sections holding a file
    cx_response,                      \* the ExtractResponse returned
    cx_error                          \* the exception in flight or raised

concurrent_vars ==
    <<cx_sections, cx_download_ok, cx_split_ok, cx_uploaded, cx_pc, cx_files,
      cx_response, cx_error>>

\* One call of process_refactored_extract_request.
VARIABLES
    rf_request,                       \* the request: the model it is an object of, its sections
    rf_download_ok,                   \* the original PDF could be downloaded
    rf_split_ok,                      \* the splitter can open the original PDF
    rf_uploaded,                      \* per section: its PDF was uploaded to the provider
    rf_pc,                            \* "start", "transform", "loop", "except", "returned"
    rf_files,                         \* extraction_ctx.section_gemini_files: sections holding a file
    rf_built,                         \* sections_with_prompts: how many sections it holds
    rf_response,                      \* the RefactoredExtractResponse returned
    rf_error                          \* the exception caught

refactored_vars ==
    <<rf_request, rf_download_ok, rf_split_ok, rf_uploaded, rf_pc, rf_files,
      rf_built, rf_response, rf_error>>

\* One call of process_single_extract_task, up to the start of its scheduler.
VARIABLES
    tg_storage,                       \* the storage service the task was given
    tg_file,                          \* the target file: exists, size_mb, download_ok, upload_state
    tg_pc,                            \* "start", "upload", "scheduler", "returned"
    tg_uploads,                       \* calls of upload_pdf_for_analysis_by_file_id
    tg_scheduler_ran,                 \* the scheduler loop was entered
    tg_result                         \* the BatchExtractTaskResult returned

target_vars ==
    <<tg_storage, tg_file, tg_pc, tg_uploads, tg_scheduler_ran, tg_result>>

\* One call of process_extract_request_with_preloaded_files_concurrent.
VARIABLES
    pl_sections,                      \* request.sections, each with its genai_file_name
    pl_batch_size,                    \* settings.max_concurrent_requests
    pl_pc,                            \* "start", "batch", "gather", "returned", "raised"
    pl_batch,                         \* the sections of the batch being built, by index
    pl_tasks,                         \* coroutines created for the batch
    pl_response,                      \* the ExtractResponse returned
    pl_error                          \* the exception that left the function

preloaded_vars ==
    <<pl_sections, pl_batch_size, pl_pc, pl_batch, pl_tasks, pl_response, pl_error>>

\* One call of analyze_pdf_content or analyze_sections_multimodal.
VARIABLES
    an_function,                      \* which of the two functions is called
    an_valid_input,                   \* the file has a name and the prompt is not blank
    an_max_retries,                   \* the parameter max_retries
    an_retry_count,                   \* the local retry_count
    an_pc,                            \* "start", "loop", "sleeping", "returned"
    an_outcomes,                      \* what each model call made so far did, in order
    an_waits,                         \* sleeps of retry_cooldown_seconds begun
    an_last_error,                    \* the local last_error
    an_result                         \* the value returned

analysis_vars ==
    <<an_function, an_valid_input, an_max_retries, an_retry_count, an_pc,
      an_outcomes, an_waits, an_last_error, an_result>>

\* The components that run outside the schedulers.
service_vars == <<target_vars, preloaded_vars, analysis_vars>>

sched_vars ==
    <<instance_vars, concurrent_vars, refactored_vars, service_vars, endpoint, active_prompts, request_items, items, max_api_retries,
      max_data_dependency_retries, retry_cooldown_seconds,
      data_dependency_deferred_queue, api_retry_queue, since_rate_limit_event,
      processing_cycles, pc, call, result_success, api_calls, only_rate_limit,
      since_rate_limit_status, every_call_succeeded, last_return>>

vars == <<sched_vars, batch_vars, resolver_vars>>

\* No generation call has returned yet.
NoReturn ==
    [outcome |-> ModelOutcome("none", ""), item |-> 0, prompt |-> 0,
     api_attempt_count |-> 0, result |-> InvokerResult(FALSE, None, None)]

DataTask(i, k, n) == [item |-> i, prompt |-> k, attempt_count |-> n]

\* Mutant of ApiTask: the task does not carry the attempts made.
ApiTaskUncounted(i, k, text, n) ==
    [item |-> i, prompt |-> k, full_prompt_text |-> text, api_attempt_count |-> 0]

ApiTask(i, k, text, n) ==
    [item |-> i, prompt |-> k, full_prompt_text |-> text, api_attempt_count |-> n]

NoCall == ApiTask(0, 0, NoText, 0)

Pairs == (1..Len(items)) \X (1..Len(active_prompts))

\* The seeding loops: one dependency-check task per (item, prompt), items outermost.
RECURSIVE SeedQueue(_, _, _, _)
SeedQueue(i, k, n_items, n_prompts) ==
    IF i > n_items THEN <<>>
    ELSE IF k > n_prompts THEN SeedQueue(i + 1, 1, n_items, n_prompts)
    ELSE <<DataTask(i, k, 0)>> \o SeedQueue(i, k + 1, n_items, n_prompts)

CycleSlack == IF endpoint = "enhance" THEN EnhanceCycleSlack ELSE ExtractCycleSlack

\* Mutant of max_processing_cycles_heuristic: one cycle per seeded task.
max_processing_cycles_one_each == Len(items) * Len(active_prompts)

\* max_processing_cycles_heuristic / max_cycles_extract
max_processing_cycles_heuristic ==
    Len(items) * Len(active_prompts)
      * (max_api_retries + max_data_dependency_retries + CycleSlack)

\* Mutant of InCooldown: the cooldown window is never observed.
NeverInCooldown == FALSE

\* last_rate_limit_event_time and (time.monotonic() - last_rate_limit_event_time < cooldown)
InCooldown ==
    since_rate_limit_event # NoEvent /\ since_rate_limit_event < retry_cooldown_seconds

\* d ticks pass; t is an elapsed time (or NoEvent), kept saturated at the cooldown.
Advance(t, d) == IF t = NoEvent THEN NoEvent ELSE Min(t + d, retry_cooldown_seconds)

Resolve(prompt_item, item) ==
    IF endpoint = "enhance"
    THEN _construct_full_prompt(prompt_item, item, active_prompts)
    ELSE _construct_extraction_prompt(prompt_item, item, active_prompts)

SetOutput(its, i, prompt_name, st, out) ==
    [its EXCEPT ![i].generated_outputs = WriteOutput(@, prompt_name, st, out)]

\* Mutant of Drain: every task left in the queue is marked, whatever its status.
RECURSIVE DrainOverwriting(_, _)
DrainOverwriting(its, queue) ==
    IF queue = <<>> THEN its
    ELSE
      LET task == Head(queue)
          name == active_prompts[task.prompt].prompt_name
          created == [its EXCEPT ![task.item].generated_outputs =
                          get_or_create_output_item(@, name)]
      IN  DrainOverwriting(SetOutput(created, task.item, name, "DATA_DEPENDENCY_TIMEOUT",
                               "Processing cycle limit reached while waiting for data."),
                           Tail(queue))

\* The post-loop drain over the tasks left in the dependency queue.
RECURSIVE Drain(_, _)
Drain(its, queue) ==
    IF queue = <<>> THEN its
    ELSE
      LET task == Head(queue)
          name == active_prompts[task.prompt].prompt_name
          created == [its EXCEPT ![task.item].generated_outputs =
                          get_or_create_output_item(@, name)]
          st == _get_prompt_status(created[task.item].generated_outputs, name)
      IN  IF st = "DATA_DEPENDENCY_PENDING" \/ st = None \/ st = ""
          THEN Drain(SetOutput(created, task.item, name, "DATA_DEPENDENCY_TIMEOUT",
                         "Processing cycle limit reached while waiting for data."),
                     Tail(queue))
          ELSE Drain(created, Tail(queue))

\* Mutant of model_copy: model_copy() without deep=True, whose copy holds the
\* very generated_outputs list of the original.
model_copy_shallow(item) == [copy |-> item, shares |-> TRUE]

\* lesson.model_copy(deep=True): the copy, and whether it shares a mutable
\* part with the original.
model_copy(item) == [copy |-> item, shares |-> FALSE]

\* The state of a component that is not running.
InstancesIdle ==
    /\ inst = <<>>
    /\ acting = 0

ConcurrentIdle ==
    /\ cx_sections = <<>>
    /\ cx_download_ok = FALSE
    /\ cx_split_ok = FALSE
    /\ cx_uploaded = <<>>
    /\ cx_pc = "idle"
    /\ cx_files = {}
    /\ cx_response = None
    /\ cx_error = None

RefactoredIdle ==
    /\ rf_request = [model |-> None, sections |-> <<>>]
    /\ rf_download_ok = FALSE
    /\ rf_split_ok = FALSE
    /\ rf_uploaded = <<>>
    /\ rf_pc = "idle"
    /\ rf_files = {}
    /\ rf_built = 0
    /\ rf_response = None
    /\ rf_error = None

TargetIdle ==
    /\ tg_storage = "drive"
    /\ tg_file = [exists |-> FALSE, size_mb |-> 0, download_ok |-> FALSE,
                  upload_state |-> "FAILED"]
    /\ tg_pc = "idle"
    /\ tg_uploads = 0
    /\ tg_scheduler_ran = FALSE
    /\ tg_result = None

PreloadedIdle ==
    /\ pl_sections = <<>>
    /\ pl_batch_size = 1
    /\ pl_pc = "idle"
    /\ pl_batch = <<>>
    /\ pl_tasks = 0
    /\ pl_response = None
    /\ pl_error = None

AnalysisIdle ==
    /\ an_function = "analyze_pdf_content"
    /\ an_valid_input = FALSE
    /\ an_max_retries = 0
    /\ an_retry_count = 0
    /\ an_pc = "idle"
    /\ an_outcomes = <<>>
    /\ an_waits = 0
    /\ an_last_error = None
    /\ an_result = None

ServicesIdle ==
    /\ TargetIdle
    /\ PreloadedIdle
    /\ AnalysisIdle

SchedulerIdle ==
    /\ InstancesIdle
    /\ ConcurrentIdle
    /\ RefactoredIdle
    /\ ServicesIdle
    /\ endpoint = "enhance"
    /\ active_prompts = <<>>
    /\ request_items = <<>>
    /\ items = <<>>
    /\ max_api_retries = 1
    /\ max_data_dependency_retries = 1
    /\ retry_cooldown_seconds = 0
    /\ data_dependency_deferred_queue = <<>>
    /\ api_retry_queue = <<>>
    /\ since_rate_limit_event = NoEvent
    /\ processing_cycles = 0
    /\ pc = "idle"
    /\ call = NoCall
    /\ result_success = FALSE
    /\ api_calls = <<>>
    /\ only_rate_limit = <<>>
    /\ since_rate_limit_status = NoEvent
    /\ every_call_succeeded = TRUE
    /\ last_return = NoReturn

BatchIdle ==
    /\ batch_endpoint = "split"
    /\ requests = <<>>
    /\ target_fate = <<>>
    /\ target_state = <<>>
    /\ target_result = <<>>
    /\ finish_order = <<>>
    /\ batch_pc = "idle"
    /\ batch_results = <<>>

Unresolved == [status |-> "UNRESOLVED", text |-> NoText]

ResolverIdle ==
    /\ rs_resolver = "enhance"
    /\ rs_prompts = <<>>
    /\ rs_item = ContentItem(<<>>)
    /\ rs_prompt = 0
    /\ rs_result = Unresolved

InitSettings ==
    /\ max_api_retries \in 1..MaxApiRetries
    /\ max_data_dependency_retries \in 1..MaxDDRetries
    /\ retry_cooldown_seconds \in {0, CooldownTicks}

\* The requests explored: every prompt list on one item with each initial
\* generated_outputs list, and the two-prompt chains on MaxItems fresh items.
InitItems ==
    \/ /\ endpoint = "enhance"
       /\ \E o \in InitialOutputs : request_items = <<ContentItem(o)>>
    \/ /\ endpoint = "enhance"
       /\ active_prompts \in {<<P1, P2needs1>>, <<P2needs1late, P1content>>}
       /\ request_items = [i \in 1..MaxItems |-> ContentItem(<<>>)]
    \/ /\ endpoint = "extract"
       /\ request_items = <<ExtractionContext>>

Init ==
    /\ BatchIdle
    /\ ResolverIdle
    /\ InstancesIdle
    /\ ConcurrentIdle
    /\ RefactoredIdle
    /\ ServicesIdle
    /\ endpoint \in {"enhance", "extract"}
    /\ active_prompts \in Requests
    /\ InitSettings
    /\ InitItems
    /\ items = [i \in DOMAIN request_items |-> model_copy(request_items[i]).copy]
    /\ data_dependency_deferred_queue =
         SeedQueue(1, 1, Len(request_items), Len(active_prompts))
    /\ api_retry_queue = <<>>
    /\ since_rate_limit_event = NoEvent
    /\ processing_cycles = 0
    /\ pc = "loop"
    /\ call = NoCall
    /\ result_success = FALSE
    /\ api_calls = [p \in (1..Len(request_items)) \X (1..Len(active_prompts)) |-> 0]
    /\ only_rate_limit = [p \in (1..Len(request_items)) \X (1..Len(active_prompts)) |-> TRUE]
    /\ since_rate_limit_status = NoEvent
    /\ every_call_succeeded = TRUE
    /\ last_return = NoReturn

\* What no step of the loop changes: the request, the settings, and the state of
\* the other components.
settings_vars ==
    <<endpoint, active_prompts, max_api_retries, max_data_dependency_retries,
      retry_cooldown_seconds, batch_vars, resolver_vars, instance_vars,
      concurrent_vars, refactored_vars, service_vars>>

config_vars == <<settings_vars, request_items>>

\* The request's items as they are once the working copies hold `written`: an
\* item is written through exactly when its copy shares its generated_outputs.
RequestAfter(written) ==
    [i \in DOMAIN request_items |->
        IF model_copy(request_items[i]).shares THEN written[i] ELSE request_items[i]]

\* Mutant of CycleStarts: the cycle counter is not advanced.
CycleStartsUncounted ==
    /\ pc = "loop"
    /\ data_dependency_deferred_queue # <<>> \/ api_retry_queue # <<>>
    /\ UNCHANGED processing_cycles

\* `while data_dependency_deferred_queue or api_retry_queue:` is entered and the
\* cycle counter stays within the budget.
CycleStarts ==
    /\ pc = "loop"
    /\ data_dependency_deferred_queue # <<>> \/ api_retry_queue # <<>>
    /\ processing_cycles + 1 <= max_processing_cycles_heuristic
    /\ processing_cycles' = processing_cycles + 1

\* A short yield (asyncio.sleep(0.05) / asyncio.sleep(0.1)) of d ticks.
Yield(d) ==
    /\ since_rate_limit_event' = Advance(since_rate_limit_event, d)
    /\ since_rate_limit_status' = Advance(since_rate_limit_status, d)

\* Mutant of StartCall: the call is started without being awaited.
StartCallNotAwaited(task) ==
    /\ pc' = "loop"
    /\ call' = task
    /\ api_calls' = [api_calls EXCEPT ![<<task.item, task.prompt>>] = @ + 1]

StartCall(task) ==
    /\ pc' = "calling"
    /\ call' = task
    /\ api_calls' = [api_calls EXCEPT ![<<task.item, task.prompt>>] = @ + 1]

\* The loop ends (both queues empty, or the cycle budget is exceeded); the
\* leftover dependency tasks are drained and the response is returned.
Finish ==
    /\ items' = Drain(items, data_dependency_deferred_queue)
    /\ pc' = "done"
    /\ result_success' = TRUE
    /\ request_items' = RequestAfter(items')
    /\ UNCHANGED <<settings_vars, data_dependency_deferred_queue, api_retry_queue,
                   since_rate_limit_event, call, api_calls, only_rate_limit,
                   since_rate_limit_status, every_call_succeeded,
                   last_return>>

LoopExit ==
    /\ pc = "loop"
    /\ data_dependency_deferred_queue = <<>> /\ api_retry_queue = <<>>
    /\ UNCHANGED processing_cycles
    /\ Finish

BudgetBreak ==
    /\ pc = "loop"
    /\ data_dependency_deferred_queue # <<>> \/ api_retry_queue # <<>>
    /\ processing_cycles + 1 > max_processing_cycles_heuristic
    /\ processing_cycles' = processing_cycles + 1
    /\ Finish

\* Mutant of RetryPop: the head of the retry queue is called without being popped.
RetryPopKeepingHead ==
    /\ CycleStarts
    /\ api_retry_queue # <<>>
    /\ ~InCooldown
    /\ api_retry_queue' = api_retry_queue
    /\ StartCall(Head(api_retry_queue))
    /\ UNCHANGED <<config_vars, items, data_dependency_deferred_queue,
                   since_rate_limit_event, result_success, only_rate_limit,
                   since_rate_limit_status, every_call_succeeded,
                   last_return>>

\* `if api_retry_queue:` outside a cooldown: pop the head and call the model.
RetryPop ==
    /\ CycleStarts
    /\ api_retry_queue # <<>>
    /\ ~InCooldown
    /\ api_retry_queue' = Tail(api_retry_queue)
    /\ StartCall(Head(api_retry_queue))
    /\ UNCHANGED <<config_vars, items, data_dependency_deferred_queue,
                   since_rate_limit_event, result_success, only_rate_limit,
                   since_rate_limit_status, every_call_succeeded,
                   last_return>>

\* Mutant of DepBranch: the dependency queue is served whatever the retry queue holds.
DepBranchIgnoringRetries ==
    /\ CycleStarts
    /\ data_dependency_deferred_queue # <<>>

\* The dependency branch is reached: the retry branch did not `continue`.
DepBranch ==
    /\ CycleStarts
    /\ api_retry_queue = <<>> \/ InCooldown
    /\ data_dependency_deferred_queue # <<>>

\* Construction succeeds outside a cooldown: first generation call of the task.
DepCheckCall ==
    /\ DepBranch
    /\ LET data_task == Head(data_dependency_deferred_queue)
           r == Resolve(active_prompts[data_task.prompt], items[data_task.item])
       IN  /\ r.status = "SUCCESS"
           /\ r.text # NoText
           /\ ~InCooldown
           /\ data_dependency_deferred_queue' = Tail(data_dependency_deferred_queue)
           /\ StartCall(ApiTask(data_task.item, data_task.prompt, r.text, 0))
    /\ UNCHANGED <<config_vars, items, api_retry_queue, since_rate_limit_event,
                   result_success, only_rate_limit, since_rate_limit_status,
                   every_call_succeeded,
                   last_return>>

\* Mutant of DepCheckCooldownDefer: the deferral is charged as a dependency attempt.
DepCheckCooldownDeferCharged ==
    /\ DepBranch
    /\ LET data_task == Head(data_dependency_deferred_queue)
           r == Resolve(active_prompts[data_task.prompt], items[data_task.item])
       IN  /\ r.status = "SUCCESS"
           /\ r.text # NoText
           /\ InCooldown
           /\ data_dependency_deferred_queue' =
                Append(Tail(data_dependency_deferred_queue),
                       DataTask(data_task.item, data_task.prompt, data_task.attempt_count + 1))
    /\ \E d \in 0..MaxStep : Yield(d)
    /\ UNCHANGED <<config_vars, items, api_retry_queue, pc, call, result_success,
                   api_calls, only_rate_limit, every_call_succeeded,
                   last_return>>

\* Construction succeeds inside a cooldown: the task is re-deferred unchanged.
DepCheckCooldownDefer ==
    /\ DepBranch
    /\ LET data_task == Head(data_dependency_deferred_queue)
           r == Resolve(active_prompts[data_task.prompt], items[data_task.item])
       IN  /\ r.status = "SUCCESS"
           /\ r.text # NoText
           /\ InCooldown
           /\ data_dependency_deferred_queue' =
                Append(Tail(data_dependency_deferred_queue),
                       DataTask(data_task.item, data_task.prompt, data_task.attempt_count))
    /\ \E d \in 0..MaxStep : Yield(d)
    /\ UNCHANGED <<config_vars, items, api_retry_queue, pc, call, result_success,
                   api_calls, only_rate_limit, every_call_succeeded,
                   last_return>>

\* Mutant of DepCheckMissing: max_data_dependency_retries counts the re-deferrals,
\* not the resolutions.
DepCheckMissingCountingDeferrals ==
    /\ DepBranch
    /\ LET data_task == Head(data_dependency_deferred_queue)
           dd_attempts == data_task.attempt_count
           prompt_name == active_prompts[data_task.prompt].prompt_name
           r == Resolve(active_prompts[data_task.prompt], items[data_task.item])
       IN  /\ r.status = "MISSING_DEPENDENCY"
           /\ IF dd_attempts < max_data_dependency_retries
              THEN /\ data_dependency_deferred_queue' =
                        Append(Tail(data_dependency_deferred_queue),
                               DataTask(data_task.item, data_task.prompt, dd_attempts + 1))
                   /\ items' = SetOutput(items, data_task.item, prompt_name,
                                   "DATA_DEPENDENCY_PENDING", "Waiting for dependent data")
              ELSE /\ data_dependency_deferred_queue' = Tail(data_dependency_deferred_queue)
                   /\ items' = SetOutput(items, data_task.item, prompt_name,
                                   "DATA_DEPENDENCY_FAILED", "Max data dependency retries")
    /\ \E d \in 0..MaxStep : Yield(d)
    /\ request_items' = RequestAfter(items')
    /\ UNCHANGED <<settings_vars, api_retry_queue, pc, call, result_success,
                   api_calls, only_rate_limit, every_call_succeeded,
                   last_return>>

\* Construction reports MISSING_DEPENDENCY: re-defer or fail the task.
DepCheckMissing ==
    /\ DepBranch
    /\ LET data_task == Head(data_dependency_deferred_queue)
           dd_attempts == data_task.attempt_count
           prompt_name == active_prompts[data_task.prompt].prompt_name
           r == Resolve(active_prompts[data_task.prompt], items[data_task.item])
       IN  /\ r.status = "MISSING_DEPENDENCY"
           /\ IF dd_attempts + 1 < max_data_dependency_retries
              THEN /\ data_dependency_deferred_queue' =
                        Append(Tail(data_dependency_deferred_queue),
                               DataTask(data_task.item, data_task.prompt, dd_attempts + 1))
                   /\ items' = SetOutput(items, data_task.item, prompt_name,
                                   "DATA_DEPENDENCY_PENDING", "Waiting for dependent data")
              ELSE /\ data_dependency_deferred_queue' = Tail(data_dependency_deferred_queue)
                   /\ items' = SetOutput(items, data_task.item, prompt_name,
                                   "DATA_DEPENDENCY_FAILED", "Max data dependency retries")
    /\ \E d \in 0..MaxStep : Yield(d)
    /\ request_items' = RequestAfter(items')
    /\ UNCHANGED <<settings_vars, api_retry_queue, pc, call, result_success,
                   api_calls, only_rate_limit, every_call_succeeded,
                   last_return>>

\* Mutant of IsRetryableStatus: every status but SUCCESS is taken as retryable.
IsRetryableAnyError(st) == st # "SUCCESS"

\* `status == "RATE_LIMIT" or status == "ERROR_API"`
IsRetryableStatus(st) == st = "RATE_LIMIT" \/ st = "ERROR_API"

\* Mutant of ShouldRequeue: max_api_retries counts the retries, not the attempts.
ShouldRequeueCountingRetries(api_attempt_count) == api_attempt_count < max_api_retries

\* `api_attempt_count + 1 < settings.max_api_retries`
ShouldRequeue(api_attempt_count) == api_attempt_count + 1 < max_api_retries

\* Mutant of _execute_api_call_for_prompt: True is returned only when the task
\* was re-queued.
_execute_api_call_true_on_requeue(res, api_attempt_count) ==
    [status |-> IF IsRetryableStatus(res.status) /\ ShouldRequeue(api_attempt_count)
                THEN "PENDING_API_RETRY" ELSE res.status,
     output |-> res.output,
     requeue |-> IsRetryableStatus(res.status) /\ ShouldRequeue(api_attempt_count),
     returns |-> IsRetryableStatus(res.status) /\ ShouldRequeue(api_attempt_count)]

\* _execute_api_call_for_prompt / _execute_extraction_api_call after the await:
\* the status left on the output item, whether a retry task is appended, and the
\* bool returned to the loop.
_execute_api_call_for_prompt(res, api_attempt_count) ==
    [status |-> IF IsRetryableStatus(res.status) /\ ShouldRequeue(api_attempt_count)
                THEN "PENDING_API_RETRY" ELSE res.status,
     output |-> res.output,
     requeue |-> IsRetryableStatus(res.status) /\ ShouldRequeue(api_attempt_count),
     returns |-> IsRetryableStatus(res.status)]

\* The argument the helper of the endpoint passes to generate_text.
GenerateArg(text) == IF endpoint = "enhance" THEN StrArg(text) ELSE ListArg(text)

\* generate_text returns; the helper records the outcome, the loop sets the
\* cooldown clock if the helper returned True, then yields; d ticks pass in all.
\* An exception out of generate_text reaches the `except Exception` of
\* process_single_extract_task, which returns the error result.
CallReturn(outcome, d) ==
    /\ pc = "calling"
    /\ LET res == generate_text(GenerateArg(call.full_prompt_text), outcome)
           done == _execute_api_call_for_prompt(res, call.api_attempt_count)
           prompt_name == active_prompts[call.prompt].prompt_name
           pair == <<call.item, call.prompt>>
       IN  IF res.raised
           THEN /\ pc' = "done"
                /\ result_success' = FALSE
                /\ Yield(d)
                /\ only_rate_limit' = [only_rate_limit EXCEPT ![pair] = FALSE]
                /\ UNCHANGED <<items, api_retry_queue>>
           ELSE /\ pc' = "loop"
                /\ result_success' = result_success
                /\ items' = SetOutput(items, call.item, prompt_name, done.status, done.output)
                /\ api_retry_queue' =
                     IF done.requeue
                     THEN Append(api_retry_queue,
                                 ApiTask(call.item, call.prompt, call.full_prompt_text,
                                         call.api_attempt_count + 1))
                     ELSE api_retry_queue
                /\ since_rate_limit_event' =
                     IF done.returns THEN Advance(0, d)
                     ELSE Advance(since_rate_limit_event, d)
                /\ since_rate_limit_status' =
                     IF res.status = "RATE_LIMIT" THEN Advance(0, d)
                     ELSE Advance(since_rate_limit_status, d)
                /\ only_rate_limit' =
                     [only_rate_limit EXCEPT ![pair] = @ /\ res.status = "RATE_LIMIT"]
    /\ call' = NoCall
    /\ every_call_succeeded' = (every_call_succeeded /\ outcome.kind = "text")
    /\ last_return' =
         [outcome |-> outcome, item |-> call.item, prompt |-> call.prompt,
          api_attempt_count |-> call.api_attempt_count,
          result |-> generate_text(GenerateArg(call.full_prompt_text), outcome)]
    /\ request_items' = RequestAfter(items')
    /\ UNCHANGED <<settings_vars, data_dependency_deferred_queue, processing_cycles,
                   api_calls>>

\* Neither queue was popped: the retry queue waits out a cooldown and the
\* dependency queue is empty.
IdleBranch ==
    /\ CycleStarts
    /\ api_retry_queue # <<>> /\ InCooldown
    /\ data_dependency_deferred_queue = <<>>

\* /enhance: remaining_cooldown > 0.1, asyncio.sleep(remaining_cooldown).
IdleSleep ==
    /\ IdleBranch
    /\ endpoint = "enhance"
    /\ since_rate_limit_event' = retry_cooldown_seconds
    /\ since_rate_limit_status' =
         Advance(since_rate_limit_status, retry_cooldown_seconds - since_rate_limit_event)
    /\ UNCHANGED <<config_vars, items, data_dependency_deferred_queue, api_retry_queue,
                   pc, call, result_success, api_calls, only_rate_limit, every_call_succeeded,
                   last_return>>

\* No sleep is reached: /enhance with remaining_cooldown <= 0.1 (the cooldown is
\* in its last tick), or the extract loop, whose sleep asks for both queues to be
\* empty.  The cycle passes without an await.
IdleSpin ==
    /\ IdleBranch
    /\ endpoint = "extract" \/ since_rate_limit_event + 1 >= retry_cooldown_seconds
    /\ \E d \in 0..MaxStep : Yield(d)
    /\ UNCHANGED <<config_vars, items, data_dependency_deferred_queue, api_retry_queue,
                   pc, call, result_success, api_calls, only_rate_limit, every_call_succeeded,
                   last_return>>

Next ==
    \/ RetryPop
    \/ DepCheckCall
    \/ DepCheckCooldownDefer
    \/ DepCheckMissing
    \/ \E outcome \in ModelOutcomes, d \in 0..MaxStep : CallReturn(outcome, d)
    \/ IdleSleep
    \/ IdleSpin
    \/ LoopExit
    \/ BudgetBreak

Spec == Init /\ [][Next]_vars

\* ------------------------------------------------------------ batch driver
MaxTargets == 3

\* What the processing of one target runs into: it completes, it returns a
\* structured error on its own (file not found, too large, upload failed, ...),
\* or an exception is raised inside its try block.
Fates == {"ok", "error_result", "exception"}

\* The batch endpoints whose processing function is in the source (/extract
\* calls process_single_extract_request, which no module defines).
BatchEndpoints == {"analyze", "split"}

\* Positional arguments the endpoint passes to the processing function.
PositionalArgsPassed(ep) ==
    CASE ep = "analyze" -> 3 [] OTHER -> 3

\* Positional parameters the processing function requires and accepts:
\* process_single_analyze_request(file_id, prompt_text, storage_service,
\* gemini_analysis_service, genai_file_name=None) and
\* process_single_split_request(split_request, storage_service,
\* pdf_splitter_service, gemini_service=None).
RequiredPositional(ep) ==
    CASE ep = "analyze" -> 4 [] OTHER -> 3

AcceptedPositional(ep) ==
    CASE ep = "analyze" -> 5 [] OTHER -> 4

\* Calling the coroutine function binds the arguments; a missing required
\* argument raises TypeError at the call, before any coroutine runs.
CallBinds(ep) ==
    /\ RequiredPositional(ep) <= PositionalArgsPassed(ep)
    /\ PositionalArgsPassed(ep) <= AcceptedPositional(ep)

ItemResult(ok, file_id, err) == [success |-> ok, file_id |-> file_id, error |-> err]

NoResult == ItemResult(FALSE, 0, None)

\* process_single_analyze_request / process_single_split_request: the whole body is inside try ... except
\* Exception, which returns the structured error result.
ProcessTarget(req, fate) ==
    CASE fate = "ok" -> ItemResult(TRUE, req.file_id, None)
      [] fate = "error_result" -> ItemResult(FALSE, req.file_id, "not found")
      [] OTHER -> ItemResult(FALSE, req.file_id, "An internal server error occurred")

\* asyncio.gather(*tasks): the results in the order of the awaitables.
Gather(results, order) == [i \in 1..Len(results) |-> results[i]]

BatchInit ==
    /\ SchedulerIdle
    /\ ResolverIdle
    /\ batch_endpoint \in BatchEndpoints
    /\ \E n \in 0..MaxTargets :
         /\ requests = [i \in 1..n |-> [file_id |-> 10 + i]]
         /\ target_fate \in [1..n -> Fates]
         /\ target_state = [i \in 1..n |-> "unborn"]
         /\ target_result = [i \in 1..n |-> NoResult]
    /\ finish_order = <<>>
    /\ batch_pc = "build"
    /\ batch_results = <<>>

\* `if not requests: return []`
BatchEmpty ==
    /\ batch_pc = "build"
    /\ requests = <<>>
    /\ batch_pc' = "returned"
    /\ batch_results' = <<>>
    /\ UNCHANGED <<sched_vars, resolver_vars, batch_endpoint, requests, target_fate,
                   target_state, target_result, finish_order>>

\* The list comprehension creating one coroutine per request.
BatchBuild ==
    /\ batch_pc = "build"
    /\ requests # <<>>
    /\ IF CallBinds(batch_endpoint)
       THEN /\ batch_pc' = "gather"
            /\ target_state' = [i \in 1..Len(requests) |-> "running"]
       ELSE /\ batch_pc' = "raised"
            /\ UNCHANGED target_state
    /\ UNCHANGED <<sched_vars, resolver_vars, batch_endpoint, requests, target_fate,
                   target_result, finish_order, batch_results>>

\* One target's coroutine runs to its return.
TargetFinish(i) ==
    /\ batch_pc = "gather"
    /\ target_state[i] = "running"
    /\ target_state' = [target_state EXCEPT ![i] = "finished"]
    /\ target_result' = [target_result EXCEPT ![i] = ProcessTarget(requests[i], target_fate[i])]
    /\ finish_order' = Append(finish_order, i)
    /\ UNCHANGED <<sched_vars, resolver_vars, batch_endpoint, requests, target_fate,
                   batch_pc, batch_results>>

\* gather completes when every awaitable has; the endpoint returns its list.
BatchReturn ==
    /\ batch_pc = "gather"
    /\ \A i \in 1..Len(requests) : target_state[i] = "finished"
    /\ batch_results' = Gather(target_result, finish_order)
    /\ batch_pc' = "returned"
    /\ UNCHANGED <<sched_vars, resolver_vars, batch_endpoint, requests, target_fate,
                   target_state, target_result, finish_order>>

BatchNext ==
    \/ BatchEmpty
    \/ BatchBuild
    \/ \E i \in 1..Len(requests) : TargetFinish(i)
    \/ BatchReturn

BatchSpec == BatchInit /\ [][BatchNext]_vars

\* ------------------------------------------------------------ resolver runs
MaxOutputs == 2

P2mixed == PromptItem("p2", "T2\n", <<"grade_level", "nope", "p1">>)

ResolverRequests ==
    Requests \cup { <<Pcontent, P2needsContent>>, <<P1, P2mixed>> }

ResolverOutputItems ==
    { GeneratedContentItem(n, o, st) :
        n \in {"p1", "content"}, o \in {None, " lorem "},
        st \in {None, "SUCCESS", "DATA_DEPENDENCY_PENDING", "lorem"} }

ResolverOutputs ==
    UNION { [1..n -> ResolverOutputItems] : n \in 0..MaxOutputs }

ResolverInit ==
    /\ SchedulerIdle
    /\ BatchIdle
    /\ rs_resolver \in {"enhance", "extract"}
    /\ rs_prompts \in ResolverRequests
    /\ \E outs \in ResolverOutputs :
         rs_item = IF rs_resolver = "enhance"
                   THEN ContentItem(outs)
                   ELSE [ExtractionContext EXCEPT !.generated_outputs = outs]
    /\ rs_prompt = 0
    /\ rs_result = Unresolved

\* Mutant of ItemAfterResolve: the outputs are looked up the way the scheduler
\* does it, with get_or_create_output_item, which appends a missing output.
ItemAfterResolveCreating(prompt_item, item, all_prompts) ==
    LET deps == prompt_item.lesson_properties_to_append
        missing == { j \in 1..Len(deps) :
                       /\ deps[j] \in KnownPromptNames(all_prompts)
                       /\ FindOutput(item.generated_outputs, deps[j]) = 0 }
    IN  IF missing = {} THEN item
        ELSE [item EXCEPT !.generated_outputs =
                 get_or_create_output_item(@, deps[CHOOSE j \in missing : \A m \in missing : j <= m])]

\* The item as a resolver leaves it: both resolvers only read prompt_item, the
\* item's content, model_extra and generated_outputs, and assign to locals.
ItemAfterResolve(prompt_item, item, all_prompts) == item

ResolveFullPrompt(k) ==
    /\ rs_resolver = "enhance"
    /\ rs_prompt = 0
    /\ rs_prompt' = k
    /\ rs_result' = _construct_full_prompt(rs_prompts[k], rs_item, rs_prompts)
    /\ rs_item' = ItemAfterResolve(rs_prompts[k], rs_item, rs_prompts)
    /\ UNCHANGED <<sched_vars, batch_vars, rs_resolver, rs_prompts>>

ResolveExtractionPrompt(k) ==
    /\ rs_resolver = "extract"
    /\ rs_prompt = 0
    /\ rs_prompt' = k
    /\ rs_result' = _construct_extraction_prompt(rs_prompts[k], rs_item, rs_prompts)
    /\ rs_item' = ItemAfterResolve(rs_prompts[k], rs_item, rs_prompts)
    /\ UNCHANGED <<sched_vars, batch_vars, rs_resolver, rs_prompts>>

ResolverNext ==
    \/ \E k \in 1..Len(rs_prompts) : ResolveFullPrompt(k)
    \/ \E k \in 1..Len(rs_prompts) : ResolveExtractionPrompt(k)

ResolverSpec == ResolverInit /\ [][ResolverNext]_vars

\* ------------------------------------------------------- concurrent runs
MaxInstanceTasks == 2

Instances == {1, 2}

\* The locals of one run: the two deques, last_rate_limit_event_time (as the
\* time elapsed since it, or NoEvent for None), processing_cycles, and where the
\* coroutine stands.
Instance(kind, total) ==
    [kind |-> kind,
     total |-> total,
     data_dependency_deferred_queue |-> [t \in 1..total |-> [task |-> t, attempt_count |-> 0]],
     api_retry_queue |-> <<>>,
     last_rate_limit_event_time |-> NoEvent,
     processing_cycles |-> 0,
     pc |-> "loop",
     call |-> [task |-> 0, api_attempt_count |-> 0]]

InstInCooldown(r) ==
    /\ r.last_rate_limit_event_time # NoEvent
    /\ r.last_rate_limit_event_time < retry_cooldown_seconds

InstMaxCycles(r) ==
    r.total * (max_api_retries + max_data_dependency_retries
                 + (IF r.kind = "enhance" THEN EnhanceCycleSlack ELSE ExtractCycleSlack))

\* The run enters a cycle within its budget.
InstCycle(r) ==
    /\ r.pc = "loop"
    /\ r.data_dependency_deferred_queue # <<>> \/ r.api_retry_queue # <<>>
    /\ r.processing_cycles + 1 <= InstMaxCycles(r)

\* Mutant of StampRateLimit: last_rate_limit_event_time is one module-level
\* variable that every run reads and writes.
StampRateLimitShared(st, n) ==
    [m \in DOMAIN st |-> [st[m] EXCEPT !.last_rate_limit_event_time = 0]]

\* `last_rate_limit_event_time = time.monotonic()` in run n.
StampRateLimit(st, n) ==
    [st EXCEPT ![n].last_rate_limit_event_time = 0]

\* Everything but the concurrent runs.
beside_instances ==
    <<endpoint, active_prompts, request_items, items, max_api_retries,
      max_data_dependency_retries, retry_cooldown_seconds,
      data_dependency_deferred_queue, api_retry_queue, since_rate_limit_event,
      processing_cycles, pc, call, result_success, api_calls, only_rate_limit,
      since_rate_limit_status, every_call_succeeded, last_return,
      batch_vars, resolver_vars, concurrent_vars, refactored_vars, service_vars>>

InstancesInit ==
    /\ BatchIdle
    /\ ResolverIdle
    /\ ServicesIdle
    /\ ConcurrentIdle
    /\ RefactoredIdle
    /\ endpoint = "enhance"
    /\ active_prompts = <<>>
    /\ request_items = <<>>
    /\ items = <<>>
    /\ max_api_retries \in 1..2
    /\ max_data_dependency_retries = 1
    /\ retry_cooldown_seconds = CooldownTicks
    /\ data_dependency_deferred_queue = <<>>
    /\ api_retry_queue = <<>>
    /\ since_rate_limit_event = NoEvent
    /\ processing_cycles = 0
    /\ pc = "idle"
    /\ call = NoCall
    /\ result_success = FALSE
    /\ api_calls = <<>>
    /\ only_rate_limit = <<>>
    /\ since_rate_limit_status = NoEvent
    /\ every_call_succeeded = TRUE
    /\ last_return = NoReturn
    /\ \E k1 \in {"enhance", "extract"}, t2 \in 1..MaxInstanceTasks :
         inst = <<Instance(k1, 1), Instance("enhance", t2)>>
    /\ acting = 0

\* Run n takes a step that leaves its locals as r.
InstStep(n, r) ==
    /\ inst' = [inst EXCEPT ![n] = r]
    /\ acting' = n
    /\ UNCHANGED beside_instances

IBudgetBreak(n) ==
    /\ inst[n].pc = "loop"
    /\ inst[n].data_dependency_deferred_queue # <<>> \/ inst[n].api_retry_queue # <<>>
    /\ inst[n].processing_cycles + 1 > InstMaxCycles(inst[n])
    /\ InstStep(n, [inst[n] EXCEPT !.processing_cycles = @ + 1, !.pc = "done"])

ILoopExit(n) ==
    /\ inst[n].pc = "loop"
    /\ inst[n].data_dependency_deferred_queue = <<>>
    /\ inst[n].api_retry_queue = <<>>
    /\ InstStep(n, [inst[n] EXCEPT !.pc = "done"])

\* The retry branch: outside a cooldown the head of the retry queue is called.
IRetryPop(n) ==
    /\ InstCycle(inst[n])
    /\ inst[n].api_retry_queue # <<>>
    /\ ~InstInCooldown(inst[n])
    /\ InstStep(n, [inst[n] EXCEPT !.processing_cycles = @ + 1,
                                   !.api_retry_queue = Tail(@),
                                   !.call = Head(inst[n].api_retry_queue),
                                   !.pc = "calling"])

\* The dependency branch is reached: the retry queue is empty or cooling down.
IDepBranch(n) ==
    /\ InstCycle(inst[n])
    /\ inst[n].api_retry_queue = <<>> \/ InstInCooldown(inst[n])
    /\ inst[n].data_dependency_deferred_queue # <<>>

\* The prompt resolves and the run is outside its cooldown: the call starts.
IDepCall(n) ==
    /\ IDepBranch(n)
    /\ ~InstInCooldown(inst[n])
    /\ InstStep(n, [inst[n] EXCEPT
           !.processing_cycles = @ + 1,
           !.data_dependency_deferred_queue = Tail(@),
           !.call = [task |-> Head(inst[n].data_dependency_deferred_queue).task,
                     api_attempt_count |-> 0],
           !.pc = "calling"])

\* The prompt resolves inside the cooldown: the task is re-deferred.
IDepCooldownDefer(n) ==
    /\ IDepBranch(n)
    /\ InstInCooldown(inst[n])
    /\ InstStep(n, [inst[n] EXCEPT
           !.processing_cycles = @ + 1,
           !.data_dependency_deferred_queue =
               Append(Tail(@), Head(inst[n].data_dependency_deferred_queue))])

\* The prompt misses a dependency: re-deferred while attempts remain.
IDepMissing(n) ==
    /\ IDepBranch(n)
    /\ LET task == Head(inst[n].data_dependency_deferred_queue)
       IN  InstStep(n, [inst[n] EXCEPT
               !.processing_cycles = @ + 1,
               !.data_dependency_deferred_queue =
                   IF task.attempt_count + 1 < max_data_dependency_retries
                   THEN Append(Tail(@), [task EXCEPT !.attempt_count = @ + 1])
                   ELSE Tail(@)])

\* generate_text returns to run n (or raises, which ends an extract task).
ICallReturn(n, outcome) ==
    /\ inst[n].pc = "calling"
    /\ LET r == inst[n]
           text == PromptText("T1", <<>>)
           res == generate_text(IF r.kind = "enhance" THEN StrArg(text) ELSE ListArg(text),
                                outcome)
           done == _execute_api_call_for_prompt(res, r.call.api_attempt_count)
           back == [r EXCEPT
                      !.pc = "loop",
                      !.call = [task |-> 0, api_attempt_count |-> 0],
                      !.api_retry_queue =
                          IF done.requeue
                          THEN Append(@, [r.call EXCEPT !.api_attempt_count = @ + 1])
                          ELSE @]
       IN  IF res.raised
           THEN InstStep(n, [r EXCEPT !.pc = "done"])
           ELSE /\ inst' = IF done.returns
                           THEN StampRateLimit([inst EXCEPT ![n] = back], n)
                           ELSE [inst EXCEPT ![n] = back]
                /\ acting' = n
                /\ UNCHANGED beside_instances

\* Neither queue is popped.  /enhance sleeps for the remaining cooldown when it
\* is more than 0.1 s; otherwise, and in the extract loop, the cycle just ends.
IIdle(n) ==
    /\ InstCycle(inst[n])
    /\ inst[n].api_retry_queue # <<>>
    /\ InstInCooldown(inst[n])
    /\ inst[n].data_dependency_deferred_queue = <<>>
    /\ InstStep(n, [inst[n] EXCEPT
           !.processing_cycles = @ + 1,
           !.pc = IF /\ inst[n].kind = "enhance"
                     /\ inst[n].last_rate_limit_event_time + 1 < retry_cooldown_seconds
                  THEN "asleep" ELSE "loop"])

\* asyncio.sleep(remaining_cooldown) is over.
IWake(n) ==
    /\ inst[n].pc = "asleep"
    /\ ~InstInCooldown(inst[n])
    /\ InstStep(n, [inst[n] EXCEPT !.pc = "loop"])

\* time.monotonic() advances by a tick, for every run.
Tick ==
    /\ \E n \in Instances : InstInCooldown(inst[n])
    /\ inst' = [n \in Instances |->
                  [inst[n] EXCEPT !.last_rate_limit_event_time = Advance(@, 1)]]
    /\ acting' = 0
    /\ UNCHANGED beside_instances

InstancesNext ==
    \/ \E n \in Instances : IBudgetBreak(n)
    \/ \E n \in Instances : ILoopExit(n)
    \/ \E n \in Instances : IRetryPop(n)
    \/ \E n \in Instances : IDepCall(n)
    \/ \E n \in Instances : IDepCooldownDefer(n)
    \/ \E n \in Instances : IDepMissing(n)
    \/ \E n \in Instances, outcome \in ModelOutcomes : ICallReturn(n, outcome)
    \/ \E n \in Instances : IIdle(n)
    \/ \E n \in Instances : IWake(n)
    \/ Tick

InstancesSpec == InstancesInit /\ [][InstancesNext]_vars

\* ------------------------------------------- concurrent section extraction
MaxSections == 3

\* pydantic validation of a constructor call: every field without a default
\* must be among the keyword arguments (unknown keywords are ignored).
Validates(required, given) == required \subseteq given

\* models.SectionExtractPrompt and the keywords of the call that builds the
\* prompt of a section.
SectionExtractPromptRequired == {"id", "user_id", "prompt_name", "prompt_text"}
SectionPromptKeywords == {"prompt_name", "prompt_text", "result"}

\* models.ExtractResponse and the keywords of the calls that build the response.
ExtractResponseRequired == {"success", "storage_file_id", "sections", "prompt"}
ResponseKeywords ==
    {"success", "originalDriveFileId", "file_name", "storage_parent_folder_id",
     "sections", "prompt", "error", "genai_file_name"}

ExtractResponse(success, sections) == [success |-> success, sections |-> sections]

\* Everything but the call of process_extract_request_concurrent.
beside_concurrent ==
    <<endpoint, active_prompts, request_items, items, max_api_retries,
      max_data_dependency_retries, retry_cooldown_seconds,
      data_dependency_deferred_queue, api_retry_queue, since_rate_limit_event,
      processing_cycles, pc, call, result_success, api_calls, only_rate_limit,
      since_rate_limit_status, every_call_succeeded, last_return,
      batch_vars, resolver_vars, instance_vars, refactored_vars, service_vars>>

ConcurrentInit ==
    /\ BatchIdle
    /\ ResolverIdle
    /\ ServicesIdle
    /\ InstancesIdle
    /\ RefactoredIdle
    /\ endpoint = "enhance"
    /\ active_prompts = <<>>
    /\ request_items = <<>>
    /\ items = <<>>
    /\ max_api_retries = 1
    /\ max_data_dependency_retries = 1
    /\ retry_cooldown_seconds = 0
    /\ data_dependency_deferred_queue = <<>>
    /\ api_retry_queue = <<>>
    /\ since_rate_limit_event = NoEvent
    /\ processing_cycles = 0
    /\ pc = "idle"
    /\ call = NoCall
    /\ result_success = FALSE
    /\ api_calls = <<>>
    /\ only_rate_limit = <<>>
    /\ since_rate_limit_status = NoEvent
    /\ every_call_succeeded = TRUE
    /\ last_return = NoReturn
    /\ \E n \in 1..MaxSections :
         /\ cx_sections = [i \in 1..n |-> [result |-> None]]
         /\ cx_uploaded \in [1..n -> BOOLEAN]
    /\ cx_download_ok \in BOOLEAN
    /\ cx_split_ok \in BOOLEAN
    /\ cx_pc = "start"
    /\ cx_files = {}
    /\ cx_response = None
    /\ cx_error = None

\* dict.get(key, default)
DictGet(dict, key, default) ==
    IF key \in DOMAIN dict THEN dict[key] ELSE default

\* Python's truth value of an Optional[str].
Truthy(v) == v # None /\ v # ""

\* The dictionaries _split_and_upload_sections hands to the splitter, one per
\* section; a section is named by its position.
sections_for_splitting(n) ==
    [i \in 1..n |-> [section_name |-> i, page_range |-> "1-2"]]

\* PdfSplitterService.split_pdf_by_sections: nothing if the PDF cannot be
\* opened; a section whose dictionary gives no pageRange is skipped; each
\* other section yields its name and the stream of its pages.
split_pdf_by_sections(readable, sections) ==
    IF ~readable THEN <<>>
    ELSE LET kept == SelectSeq(sections,
                         LAMBDA section : Truthy(DictGet(section, "pageRange", None)))
         IN  [j \in 1..Len(kept) |->
                [sectionName |-> DictGet(kept[j], "sectionName", "UnknownSection"),
                 fileContent |-> "stream"]]

\* _split_and_upload_sections on n sections: the sections it leaves a file of
\* in section_gemini_files; it returns whether there is at least one.  Without
\* the download or without split results it returns False at once; reading
\* split_result["section_name"] of a result that has no such key raises, and
\* the except returns False.
SplitAndUploadSections(download_ok, readable, n, uploaded) ==
    IF ~download_ok THEN {}
    ELSE LET split_results == split_pdf_by_sections(readable, sections_for_splitting(n))
         IN  IF split_results = <<>> THEN {}
             ELSE IF "section_name" \notin DOMAIN split_results[1] THEN {}
             ELSE { split_results[j].section_name : j \in
                      { k \in 1..Len(split_results) :
                           uploaded[split_results[k].section_name] } }

\* _split_and_upload_sections on the sections of the request.
SplitAndUpload ==
    SplitAndUploadSections(cx_download_ok, cx_split_ok, Len(cx_sections), cx_uploaded)

\* `if not await _split_and_upload_sections(...)`: on False the function goes to
\* return an ExtractResponse, whose construction is inside the try.
CxSplitAndUpload ==
    /\ cx_pc = "start"
    /\ cx_files' = SplitAndUpload
    /\ IF SplitAndUpload = {}
       THEN IF Validates(ExtractResponseRequired, ResponseKeywords)
            THEN /\ cx_pc' = "returned"
                 /\ cx_response' = ExtractResponse(FALSE, cx_sections)
                 /\ UNCHANGED cx_error
            ELSE /\ cx_pc' = "except"
                 /\ cx_error' = "ValidationError"
                 /\ UNCHANGED cx_response
       ELSE /\ cx_pc' = "build"
            /\ UNCHANGED <<cx_response, cx_error>>
    /\ UNCHANGED <<beside_concurrent, cx_sections, cx_download_ok, cx_split_ok,
                   cx_uploaded>>

\* The loop creating the tasks: its first statement builds the
\* SectionExtractPrompt of the first section.  The statements after it (the
\* gather, the retry pass, the success response) run only if that call validates.
CxBuildTasks ==
    /\ cx_pc = "build"
    /\ IF Validates(SectionExtractPromptRequired, SectionPromptKeywords)
       THEN /\ cx_pc' = "gather"
            /\ UNCHANGED cx_error
       ELSE /\ cx_pc' = "except"
            /\ cx_error' = "ValidationError"
    /\ UNCHANGED <<beside_concurrent, cx_sections, cx_download_ok, cx_split_ok,
                   cx_uploaded, cx_files, cx_response>>

\* `except Exception as ex`: the section files are cleaned up and the error
\* response is built, outside any try.
CxExcept ==
    /\ cx_pc = "except"
    /\ cx_files' = {}
    /\ IF Validates(ExtractResponseRequired, ResponseKeywords)
       THEN /\ cx_pc' = "returned"
            /\ cx_response' = ExtractResponse(FALSE, cx_sections)
            /\ cx_error' = None
       ELSE /\ cx_pc' = "raised"
            /\ cx_error' = "ValidationError"
            /\ UNCHANGED cx_response
    /\ UNCHANGED <<beside_concurrent, cx_sections, cx_download_ok, cx_split_ok,
                   cx_uploaded>>

\* CxBuildTasks is not among the steps: _split_and_upload_sections never
\* returns True, so the loop creating the tasks is not reached.
ConcurrentNext ==
    \/ CxSplitAndUpload
    \/ CxExcept

ConcurrentSpec == ConcurrentInit /\ [][ConcurrentNext]_vars

\* ------------------------------------------- refactored section extraction
\* The models of models.py an object passed as `request` may be of, with the
\* attributes their objects and the objects in their `sections` have.
RequestModels == {"AnalyzeResponseItemSuccess", "AnalyzeResultWithPrompts"}

RequestAttributes(model) ==
    IF model = "AnalyzeResponseItemSuccess"
    THEN {"storage_file_id", "file_name", "storage_parent_folder_id", "sections",
          "genai_file_name"}
    ELSE {"storage_file_id", "file_name", "storage_parent_folder_id", "sections"}

SectionAttributes(model) ==
    IF model = "AnalyzeResponseItemSuccess"
    THEN {"page_range", "section_name", "result", "genai_file_name"}
    ELSE {"prompts", "page_range", "section_name", "genai_file_name"}

\* models.SectionWithPrompts, models.AnalyzeResultWithPrompts and
\* models.RefactoredExtractResponse, with the keywords of the calls that build them.
SectionWithPromptsRequired == {"page_range", "section_name"}
SectionWithPromptsKeywords == {"prompts", "page_range", "section_name"}
DefaultPromptKeywords == {"prompt_name", "prompt_text"}
AnalyzeResultWithPromptsRequired ==
    {"storage_file_id", "file_name", "storage_parent_folder_id", "sections"}
TransformedRequestKeywords ==
    {"originalDriveFileId", "file_name", "storage_parent_folder_id", "sections"}
RefactoredExtractResponseRequired == {"success"}
RefactoredResponseKeywords == {"success", "result", "error"}

RefactoredExtractResponse(success, result, error) ==
    [success |-> success, result |-> result, error |-> error]

\* Everything but the call of process_refactored_extract_request.
beside_refactored ==
    <<endpoint, active_prompts, request_items, items, max_api_retries,
      max_data_dependency_retries, retry_cooldown_seconds,
      data_dependency_deferred_queue, api_retry_queue, since_rate_limit_event,
      processing_cycles, pc, call, result_success, api_calls, only_rate_limit,
      since_rate_limit_status, every_call_succeeded, last_return,
      batch_vars, resolver_vars, instance_vars, concurrent_vars, service_vars>>

RefactoredInit ==
    /\ BatchIdle
    /\ ResolverIdle
    /\ ServicesIdle
    /\ InstancesIdle
    /\ ConcurrentIdle
    /\ endpoint = "enhance"
    /\ active_prompts = <<>>
    /\ request_items = <<>>
    /\ items = <<>>
    /\ max_api_retries = 1
    /\ max_data_dependency_retries = 1
    /\ retry_cooldown_seconds = 0
    /\ data_dependency_deferred_queue = <<>>
    /\ api_retry_queue = <<>>
    /\ since_rate_limit_event = NoEvent
    /\ processing_cycles = 0
    /\ pc = "idle"
    /\ call = NoCall
    /\ result_success = FALSE
    /\ api_calls = <<>>
    /\ only_rate_limit = <<>>
    /\ since_rate_limit_status = NoEvent
    /\ every_call_succeeded = TRUE
    /\ last_return = NoReturn
    /\ \E n \in 1..MaxSections, model \in RequestModels :
         /\ \E has \in [1..n -> BOOLEAN] :
              /\ "prompts" \notin SectionAttributes(model) => \A i \in 1..n : ~has[i]
              /\ rf_request =
                   [model |-> model, sections |-> [i \in 1..n |-> [has_prompts |-> has[i]]]]
         /\ rf_uploaded \in [1..n -> BOOLEAN]
    /\ rf_download_ok \in BOOLEAN
    /\ rf_split_ok \in BOOLEAN
    /\ rf_pc = "start"
    /\ rf_files = {}
    /\ rf_built = 0
    /\ rf_response = None
    /\ rf_error = None

\* _split_and_upload_sections on the sections of the request.
RfSplitAndUpload ==
    SplitAndUploadSections(rf_download_ok, rf_split_ok, Len(rf_request.sections),
                           rf_uploaded)

\* `if not await _split_and_upload_sections(...)`: on False the failure response
\* is returned.
RfSplit ==
    /\ rf_pc = "start"
    /\ rf_files' = RfSplitAndUpload
    /\ IF RfSplitAndUpload = {}
       THEN IF Validates(RefactoredExtractResponseRequired, RefactoredResponseKeywords)
            THEN /\ rf_pc' = "returned"
                 /\ rf_response' = RefactoredExtractResponse(FALSE, None, "Failed to split and upload sections to Gemini AI")
                 /\ UNCHANGED rf_error
            ELSE /\ rf_pc' = "except"
                 /\ rf_error' = "ValidationError"
                 /\ UNCHANGED rf_response
       ELSE /\ rf_pc' = "transform"
            /\ UNCHANGED <<rf_response, rf_error>>
    /\ UNCHANGED <<beside_refactored, rf_request, rf_download_ok, rf_split_ok,
                   rf_uploaded, rf_built>>

\* One pass of `for section in request.sections`: `section.prompts` is read, and
\* a SectionWithPrompts is built from the section's prompts or from a default
\* SectionExtractPrompt.
RfTransformSection ==
    /\ rf_pc = "transform"
    /\ rf_built < Len(rf_request.sections)
    /\ LET section == rf_request.sections[rf_built + 1]
           error == IF "prompts" \notin SectionAttributes(rf_request.model)
                    THEN "AttributeError"
                    ELSE IF /\ ~section.has_prompts
                            /\ ~Validates(SectionExtractPromptRequired, DefaultPromptKeywords)
                    THEN "ValidationError"
                    ELSE IF ~Validates(SectionWithPromptsRequired, SectionWithPromptsKeywords)
                    THEN "ValidationError"
                    ELSE None
       IN  IF error = None
           THEN /\ rf_built' = rf_built + 1
                /\ UNCHANGED <<rf_pc, rf_error>>
           ELSE /\ rf_pc' = "except"
                /\ rf_error' = error
                /\ UNCHANGED rf_built
    /\ UNCHANGED <<beside_refactored, rf_request, rf_download_ok, rf_split_ok,
                   rf_uploaded, rf_files, rf_response>>

\* `transformed_request = AnalyzeResultWithPrompts(originalDriveFileId=
\* request.originalDriveFileId, ...)`; the queues are seeded and the loop is
\* entered only if the request has the attribute and the call validates.
RfBuildRequest ==
    /\ rf_pc = "transform"
    /\ rf_built = Len(rf_request.sections)
    /\ LET error == IF "originalDriveFileId" \notin RequestAttributes(rf_request.model)
                    THEN "AttributeError"
                    ELSE IF ~Validates(AnalyzeResultWithPromptsRequired, TransformedRequestKeywords)
                    THEN "ValidationError"
                    ELSE None
       IN  IF error = None
           THEN /\ rf_pc' = "loop"
                /\ UNCHANGED rf_error
           ELSE /\ rf_pc' = "except"
                /\ rf_error' = error
    /\ UNCHANGED <<beside_refactored, rf_request, rf_download_ok, rf_split_ok,
                   rf_uploaded, rf_files, rf_built, rf_response>>

\* `except Exception as ex`: the section files are cleaned up and the failure
\* response is returned.
RfExcept ==
    /\ rf_pc = "except"
    /\ rf_files' = {}
    /\ rf_pc' = "returned"
    /\ rf_response' =
         RefactoredExtractResponse(FALSE, None, "An internal server error occurred during extraction")
    /\ UNCHANGED <<beside_refactored, rf_request, rf_download_ok, rf_split_ok,
                   rf_uploaded, rf_built, rf_error>>

\* RfTransformSection, RfBuildRequest and RfExcept are not among the steps:
\* _split_and_upload_sections never returns True, so the function returns its
\* failure response before the transformation of the sections.
RefactoredNext ==
    \/ RfSplit

RefactoredSpec == RefactoredInit /\ [][RefactoredNext]_vars

\* ================================================ the services' own runs
\* Everything but the components that run outside the schedulers.
beside_services ==
    <<endpoint, active_prompts, request_items, items, max_api_retries,
      max_data_dependency_retries, retry_cooldown_seconds,
      data_dependency_deferred_queue, api_retry_queue, since_rate_limit_event,
      processing_cycles, pc, call, result_success, api_calls, only_rate_limit,
      since_rate_limit_status, every_call_succeeded, last_return,
      batch_vars, resolver_vars, instance_vars, concurrent_vars, refactored_vars>>

\* No scheduler, batch, resolver or section extraction is running.
AllElseIdle ==
    /\ BatchIdle
    /\ ResolverIdle
    /\ InstancesIdle
    /\ ConcurrentIdle
    /\ RefactoredIdle
    /\ endpoint = "enhance"
    /\ active_prompts = <<>>
    /\ request_items = <<>>
    /\ items = <<>>
    /\ max_api_retries = 1
    /\ max_data_dependency_retries = 1
    /\ retry_cooldown_seconds = 0
    /\ data_dependency_deferred_queue = <<>>
    /\ api_retry_queue = <<>>
    /\ since_rate_limit_event = NoEvent
    /\ processing_cycles = 0
    /\ pc = "idle"
    /\ call = NoCall
    /\ result_success = FALSE
    /\ api_calls = <<>>
    /\ only_rate_limit = <<>>
    /\ since_rate_limit_status = NoEvent
    /\ every_call_succeeded = TRUE
    /\ last_return = NoReturn

\* ------------------------------------------------ one extraction target
\* `file_size > 50 * 1024 * 1024`, sizes counted in MB.
SizeLimitMB == 50

\* Sizes of the target files tried: empty, at the limit, and one MB above it.
FileSizesMB == {0, SizeLimitMB, SizeLimitMB + 1}

StorageServices == {"drive", "supabase"}

\* States of the file the provider holds when the polling ends, and "raises"
\* for an upload that throws.
UploadStates == {"ACTIVE", "FAILED", "PROCESSING", "raises"}

\* An Optional value: the empty set for None, else the set of the one value.
Nothing == {}
Some(v) == {v}
ValueOf(opt) == CHOOSE v \in opt : TRUE

\* get_file_info: None when the file cannot be read; GoogleDriveService asks
\* Drive for fields="name,parents" only, SupabaseStorageService selects the
\* size column as well.
get_file_info(storage, file) ==
    IF ~file.exists THEN Nothing
    ELSE IF storage = "drive"
    THEN Some([name |-> "target.pdf", parents |-> <<"folder">>])
    ELSE Some([name |-> "target.pdf", size |-> file.size_mb])

\* upload_pdf_for_analysis_by_file_id: the uploaded file, or None when the
\* download gives nothing, the upload throws, or the file does not become ACTIVE.
upload_pdf_for_analysis_by_file_id(file) ==
    IF ~file.download_ok THEN Nothing
    ELSE IF file.upload_state = "ACTIVE" THEN Some([name |-> "files/target"])
    ELSE Nothing

BatchExtractTaskResult(success, error) ==
    [success |-> success, error |-> error]

beside_target == <<beside_services, preloaded_vars, analysis_vars>>

TargetInit ==
    /\ AllElseIdle
    /\ PreloadedIdle
    /\ AnalysisIdle
    /\ tg_storage \in StorageServices
    /\ tg_file \in [exists : BOOLEAN, size_mb : FileSizesMB,
                     download_ok : BOOLEAN, upload_state : UploadStates]
    /\ tg_pc = "start"
    /\ tg_uploads = 0
    /\ tg_scheduler_ran = FALSE
    /\ tg_result = None

\* From the entry to the await of the upload: the file info is fetched and the
\* size it names is tested.
TgCheckFile ==
    /\ tg_pc = "start"
    /\ LET target_file_info == get_file_info(tg_storage, tg_file)
       IN  IF target_file_info = Nothing
           THEN /\ tg_pc' = "returned"
                /\ tg_result' = BatchExtractTaskResult(FALSE,
                      "Target Drive file not found or permission denied.")
           ELSE IF DictGet(ValueOf(target_file_info), "size", 0) > SizeLimitMB
           THEN /\ tg_pc' = "returned"
                /\ tg_result' = BatchExtractTaskResult(FALSE, "File too large")
           ELSE /\ tg_pc' = "upload"
                /\ tg_result' = tg_result
    /\ UNCHANGED <<beside_target, tg_storage, tg_file, tg_uploads, tg_scheduler_ran>>

\* The awaited upload returns.
TgUpload ==
    /\ tg_pc = "upload"
    /\ tg_uploads' = tg_uploads + 1
    /\ IF upload_pdf_for_analysis_by_file_id(tg_file) = Nothing
       THEN /\ tg_pc' = "returned"
            /\ tg_result' = BatchExtractTaskResult(FALSE,
                  "Failed to upload target document for AI extraction.")
       ELSE /\ tg_pc' = "scheduler"
            /\ tg_result' = tg_result
    /\ UNCHANGED <<beside_target, tg_storage, tg_file, tg_scheduler_ran>>

\* The queues are seeded and the scheduler loop runs to its end (the loop
\* itself is the extract run of Spec); every generation call of the task is
\* made inside it.
TgScheduler ==
    /\ tg_pc = "scheduler"
    /\ tg_scheduler_ran' = TRUE
    /\ tg_pc' = "returned"
    /\ tg_result' = BatchExtractTaskResult(TRUE, None)
    /\ UNCHANGED <<beside_target, tg_storage, tg_file, tg_uploads>>

TargetNext ==
    \/ TgCheckFile
    \/ TgUpload
    \/ TgScheduler

TargetSpec == TargetInit /\ [][TargetNext]_vars

\* ------------------------------------- sections with pre-loaded files
\* The largest max_concurrent_requests tried.
MaxBatchSize == 2

\* Values of a section's Optional genai_file_name.
FileNames == {None, "", "files/section"}

\* Keywords of the call building the failure ExtractResponse of this function.
PreloadedResponseKeywords ==
    {"success", "storage_file_id", "file_name", "storage_parent_folder_id",
     "sections", "prompt", "error"}

\* `[s for s in request.sections if s.genai_file_name]`, by index.
sections_with_genai_files(sections) ==
    SelectSeq([i \in 1..Len(sections) |-> i], LAMBDA i : Truthy(sections[i].genai_file_name))

\* `seq[start : start + size]` with a 0-based start.
Slice(seq, start, size) ==
    [j \in 1..(IF Len(seq) - start < size THEN Len(seq) - start ELSE size) |->
       seq[start + j]]

beside_preloaded == <<beside_services, target_vars, analysis_vars>>

PreloadedInit ==
    /\ AllElseIdle
    /\ TargetIdle
    /\ AnalysisIdle
    /\ \E n \in 1..MaxSections :
         pl_sections \in [1..n -> [genai_file_name : FileNames]]
    /\ pl_batch_size \in 1..MaxBatchSize
    /\ pl_pc = "start"
    /\ pl_batch = <<>>
    /\ pl_tasks = 0
    /\ pl_response = None
    /\ pl_error = None

\* The sections holding a file are selected; with none the failure response is
\* returned, else the first batch is sliced.
PlSelect ==
    /\ pl_pc = "start"
    /\ LET selected == sections_with_genai_files(pl_sections)
       IN  IF selected = <<>>
           THEN IF Validates(ExtractResponseRequired, PreloadedResponseKeywords)
                THEN /\ pl_pc' = "returned"
                     /\ pl_response' =
                          ExtractResponse(FALSE, [i \in 1..Len(pl_sections) |-> i])
                     /\ UNCHANGED <<pl_batch, pl_error>>
                ELSE /\ pl_pc' = "raised"
                     /\ pl_error' = "ValidationError"
                     /\ UNCHANGED <<pl_batch, pl_response>>
           ELSE /\ pl_pc' = "batch"
                /\ pl_batch' = Slice(selected, 0, pl_batch_size)
                /\ UNCHANGED <<pl_response, pl_error>>
    /\ UNCHANGED <<beside_preloaded, pl_sections, pl_batch_size, pl_tasks>>

\* The first statement of the loop over the batch builds the section's
\* SectionExtractPrompt.  The function has no try: a failed validation
\* leaves it.  The statements after it (the coroutine, the gather, the next
\* batch, the response) run only if that call validates.
PlBuildTask ==
    /\ pl_pc = "batch"
    /\ IF Validates(SectionExtractPromptRequired, SectionPromptKeywords)
       THEN /\ pl_tasks' = pl_tasks + 1
            /\ pl_pc' = IF pl_tasks + 1 = Len(pl_batch) THEN "gather" ELSE "batch"
            /\ UNCHANGED pl_error
       ELSE /\ pl_pc' = "raised"
            /\ pl_error' = "ValidationError"
            /\ UNCHANGED pl_tasks
    /\ UNCHANGED <<beside_preloaded, pl_sections, pl_batch_size, pl_batch, pl_response>>

PreloadedNext ==
    \/ PlSelect
    \/ PlBuildTask

PreloadedSpec == PreloadedInit /\ [][PreloadedNext]_vars

\* ---------------------------------------------- the analysis retry loops
\* The largest max_retries tried (the parameter's default is 3).
MaxAnalysisRetries == 3

AnalysisFunctions == {"analyze_pdf_content", "analyze_sections_multimodal"}

\* What a model call does: it returns a response with text (that
\* _parse_sections_response can or cannot turn into sections) or without
\* text, or it raises.
ReturningOutcomes == {"text", "unparsable", "empty"}
RaisingOutcomes == {"ResourceExhausted", "GoogleAPIError", "Exception"}

\* The value returned when a call has returned a response.
ResultOfResponse(function, outcome) ==
    IF function = "analyze_pdf_content"
    THEN IF outcome = "empty"
         THEN <<"ERROR_NO_RESPONSE", "No analysis result was generated in the response.">>
         ELSE <<"text", None>>
    ELSE IF outcome = "text" THEN "sections_info" ELSE None

\* The value returned for invalid input.
ResultOfInvalidInput(function) ==
    IF function = "analyze_pdf_content" THEN <<"ERROR_INPUT", "Invalid input">> ELSE None

\* The value returned after the loop: all retries failed.
ResultOfExhaustion(function, last_error) ==
    IF function = "analyze_pdf_content" THEN <<"ERROR_MAX_RETRIES", last_error>> ELSE None

\* Mutant of RetriesLeft: the attempt that reaches max_retries is allowed too.
RetriesLeftInclusive(retry_count, max_retries) == retry_count <= max_retries

\* `retry_count < max_retries`, the test of the while and of the sleep.
RetriesLeft(retry_count, max_retries) == retry_count < max_retries

beside_analysis == <<beside_services, target_vars, preloaded_vars>>

AnalysisInit ==
    /\ AllElseIdle
    /\ TargetIdle
    /\ PreloadedIdle
    /\ an_function \in AnalysisFunctions
    /\ an_valid_input \in BOOLEAN
    /\ an_max_retries \in 1..MaxAnalysisRetries
    /\ an_retry_count = 0
    /\ an_pc = "start"
    /\ an_outcomes = <<>>
    /\ an_waits = 0
    /\ an_last_error = None
    /\ an_result = None

\* The checks of the file and of the prompt before the loop.
AnCheckInput ==
    /\ an_pc = "start"
    /\ IF an_valid_input
       THEN /\ an_pc' = "loop"
            /\ an_result' = an_result
       ELSE /\ an_pc' = "returned"
            /\ an_result' = ResultOfInvalidInput(an_function)
    /\ UNCHANGED <<beside_analysis, an_function, an_valid_input, an_max_retries,
                   an_retry_count, an_outcomes, an_waits, an_last_error>>

\* One pass of the while whose call returns a response: the function returns.
AnCallReturns(outcome) ==
    /\ an_pc = "loop"
    /\ RetriesLeft(an_retry_count, an_max_retries)
    /\ outcome \in ReturningOutcomes
    /\ an_outcomes' = Append(an_outcomes, outcome)
    /\ an_pc' = "returned"
    /\ an_result' = ResultOfResponse(an_function, outcome)
    /\ UNCHANGED <<beside_analysis, an_function, an_valid_input, an_max_retries,
                   an_retry_count, an_waits, an_last_error>>

\* One pass of the while whose call raises: the error is kept, retry_count is
\* advanced, and the cooldown sleep is begun if retries are left.
AnCallRaises(outcome) ==
    /\ an_pc = "loop"
    /\ RetriesLeft(an_retry_count, an_max_retries)
    /\ outcome \in RaisingOutcomes
    /\ an_outcomes' = Append(an_outcomes, outcome)
    /\ an_last_error' = outcome
    /\ an_retry_count' = an_retry_count + 1
    /\ IF RetriesLeft(an_retry_count + 1, an_max_retries)
       THEN /\ an_pc' = "sleeping"
            /\ an_waits' = an_waits + 1
       ELSE /\ an_pc' = "loop"
            /\ an_waits' = an_waits
    /\ UNCHANGED <<beside_analysis, an_function, an_valid_input, an_max_retries,
                   an_result>>

\* asyncio.sleep(settings.retry_cooldown_seconds) is over.
AnWake ==
    /\ an_pc = "sleeping"
    /\ an_pc' = "loop"
    /\ UNCHANGED <<beside_analysis, an_function, an_valid_input, an_max_retries,
                   an_retry_count, an_outcomes, an_waits, an_last_error, an_result>>

\* The while is left: all retries failed.
AnExhausted ==
    /\ an_pc = "loop"
    /\ ~RetriesLeft(an_retry_count, an_max_retries)
    /\ an_pc' = "returned"
    /\ an_result' = ResultOfExhaustion(an_function, an_last_error)
    /\ UNCHANGED <<beside_analysis, an_function, an_valid_input, an_max_retries,
                   an_retry_count, an_outcomes, an_waits, an_last_error>>

AnalysisNext ==
    \/ AnCheckInput
    \/ \E outcome \in ReturningOutcomes : AnCallReturns(outcome)
    \/ \E outcome \in RaisingOutcomes : AnCallRaises(outcome)
    \/ AnWake
    \/ AnExhausted

AnalysisSpec == AnalysisInit /\ [][AnalysisNext]_vars

\* ================================================================ claims
StatusOf(i, k) ==
    _get_prompt_status(items[i].generated_outputs, active_prompts[k].prompt_name)

OutputsNamed(outs, name) == { j \in 1..Len(outs) : outs[j].prompt_name = name }

InRetryQueue(i, k) ==
    \E j \in 1..Len(api_retry_queue) :
        api_retry_queue[j].item = i /\ api_retry_queue[j].prompt = k

\* The scheduler run has returned its response (no exception ended it).
Returned == pc = "done" /\ result_success

DuplicateFree(outs) ==
    \A a, b \in 1..Len(outs) : a # b => outs[a].prompt_name # outs[b].prompt_name

\* ---- C1
\* What is left of the run: the cycles the budget still allows, and the steps
\* left inside the current cycle.
RemainingWork ==
    2 * (max_processing_cycles_heuristic + 1 - processing_cycles)
      + (CASE pc = "calling" -> 2 [] pc = "loop" -> 1 [] OTHER -> 0)

\* C1: the scheduler loop always exits, after at most max_cycles cycles of work:
\* while the loop runs at most max_cycles cycles have begun, the only further
\* iteration is the one that breaks, every step uses up remaining work, and the
\* run is never stuck before it is done.
C1_LoopTerminates ==
    /\ [](pc \in {"loop", "calling"} => processing_cycles <= max_processing_cycles_heuristic)
    /\ [](processing_cycles <= max_processing_cycles_heuristic + 1)
    /\ [](pc = "done" \/ ENABLED Next)
    /\ [][RemainingWork' < RemainingWork]_vars

\* A run over prompts whose dependencies form a cycle has ended.
C1_Witness ==
    /\ pc = "done"
    /\ active_prompts = <<P1needs2, P2needs1>>
    /\ request_items[1].generated_outputs = <<>>
    /\ processing_cycles > 0

\* ---- C2
\* C2: when a run returns, no seeded pair is left in a transient status, without a
\* status, or sitting in the retry queue.
C2_NoPairLeftTransient ==
    Returned =>
      \A p \in Pairs :
         /\ StatusOf(p[1], p[2]) \notin {None, "PENDING_API_RETRY", "DATA_DEPENDENCY_PENDING"}
         /\ ~InRetryQueue(p[1], p[2])

\* ---- C3
StatusTaxonomy ==
    { "SUCCESS", "RATE_LIMIT", "ERROR_API", "ERROR_EMPTY", "ERROR_BLOCKED",
      "ERROR_INVALID_JSON", "ERROR_API_CANT_GENERATE_JSON", "PENDING_API_RETRY",
      "DATA_DEPENDENCY_PENDING", "DATA_DEPENDENCY_FAILED", "DATA_DEPENDENCY_TIMEOUT" }

\* C3: after a run every (item, prompt) pair has exactly one GeneratedOutput, whose
\* status is a value of the status taxonomy.
C3_OneOutputWithTaxonomyStatus ==
    Returned =>
      \A p \in Pairs :
         /\ Cardinality(OutputsNamed(items[p[1]].generated_outputs,
                                     active_prompts[p[2]].prompt_name)) = 1
         /\ StatusOf(p[1], p[2]) \in StatusTaxonomy

\* ---- C4
\* C4: an item that starts without duplicate prompt names never holds two
\* GeneratedOutputs of one prompt name, and a further get-or-create for any
\* prompt name it already holds creates no entry.
C4_AtMostOneOutputPerPrompt ==
    \A i \in 1..Len(items) :
       DuplicateFree(request_items[i].generated_outputs) =>
         /\ DuplicateFree(items[i].generated_outputs)
         /\ \A n \in PromptNames :
              LET once == get_or_create_output_item(items[i].generated_outputs, n)
              IN  /\ get_or_create_output_item(once, n) = once
                  /\ Cardinality(OutputsNamed(once, n)) = 1

\* An output was written, looked up again and rewritten (PENDING, then FAILED).
C4_Witness ==
    /\ max_data_dependency_retries >= 2
    /\ \E p \in Pairs :
         /\ DuplicateFree(request_items[p[1]].generated_outputs)
         /\ StatusOf(p[1], p[2]) = "DATA_DEPENDENCY_FAILED"

\* ---- C6
\* The pair is neither awaiting a retry nor in a call.
PairSettled(i, k) ==
    /\ pc \in {"loop", "done"}
    /\ ~InRetryQueue(i, k)

C7_NoCallInsideCooldown ==
    pc = "calling" =>
      ~(since_rate_limit_status # NoEvent /\ since_rate_limit_status < retry_cooldown_seconds)

\* A call is started after a RATE_LIMIT, once the non-zero cooldown has passed.
C7_Witness ==
    /\ pc = "calling"
    /\ retry_cooldown_seconds > 0
    /\ since_rate_limit_status # NoEvent

\* ---- C10
\* C10: 2 items, prompt2 depending on prompt1, every call succeeding: 4 seeded
\* tasks, and at the end 4 GeneratedOutputs, all SUCCESS.
C10_ScenarioAllSuccess ==
    (/\ endpoint = "enhance"
     /\ active_prompts = <<P1, P2needs1>>
     /\ Len(items) = 2
     /\ every_call_succeeded) =>
       /\ Len(SeedQueue(1, 1, Len(items), Len(active_prompts))) = 4
       /\ Returned =>
            \A p \in Pairs :
               /\ Cardinality(OutputsNamed(items[p[1]].generated_outputs,
                                           active_prompts[p[2]].prompt_name)) = 1
               /\ StatusOf(p[1], p[2]) = "SUCCESS"

\* ---- C5
\* The references of the resolved prompt that name a prompt of the request.
ResolvedDependencies ==
    { d \in KnownPromptNames(rs_prompts) :
        \E j \in 1..Len(rs_prompts[rs_prompt].lesson_properties_to_append) :
            rs_prompts[rs_prompt].lesson_properties_to_append[j] = d }

\* No GeneratedOutput of the item named a is SUCCESS with a non-null output.
NoUsableOutput(a) ==
    \A j \in 1..Len(rs_item.generated_outputs) :
        rs_item.generated_outputs[j].prompt_name = a =>
            \/ rs_item.generated_outputs[j].status # "SUCCESS"
            \/ rs_item.generated_outputs[j].output = None

MissingDependencyResult == [status |-> "MISSING_DEPENDENCY", text |-> NoText]

\* C5 as stated: whenever the resolved prompt B references a prompt A of the
\* request that has no usable output on the item, the result is
\* MISSING_DEPENDENCY with no text.
C5_MissingDependency ==
    rs_prompt # 0 =>
      \A a \in ResolvedDependencies :
         NoUsableOutput(a) => rs_result = MissingDependencyResult

\* C5 amended: the same, except for the reference "content" in
\* _construct_full_prompt, which is taken as the item's content even when a
\* prompt of the request bears that name.
C5_MissingDependencyUnlessContent ==
    rs_prompt # 0 =>
      \A a \in ResolvedDependencies :
         (NoUsableOutput(a) /\ ~(rs_resolver = "enhance" /\ a = "content"))
            => rs_result = MissingDependencyResult

\* The dependency has an output holding a value, but not with status SUCCESS,
\* and the resolution returned MISSING_DEPENDENCY.
C5_Witness ==
    /\ rs_prompt # 0
    /\ rs_result = MissingDependencyResult
    /\ \E a \in ResolvedDependencies :
         /\ NoUsableOutput(a)
         /\ \E j \in 1..Len(rs_item.generated_outputs) :
              /\ rs_item.generated_outputs[j].prompt_name = a
              /\ rs_item.generated_outputs[j].output # None

\* ---- C8
\* C8: the batch call never ends by an exception, and when it returns, a target
\* whose processing raised has a structured error result while every other
\* target has the result of its own processing.
C8_BatchIsolation ==
    /\ batch_pc # "raised"
    /\ batch_pc = "returned" =>
         /\ Len(batch_results) = Len(requests)
         /\ \A i \in 1..Len(requests) :
              /\ target_fate[i] = "exception" =>
                    /\ batch_results[i].success = FALSE
                    /\ batch_results[i].error # None
              /\ target_fate[i] = "ok" => batch_results[i].success = TRUE

\* ---- C9
\* C9: a batch call over n targets ends by returning n results, the result at
\* position i being that of the target at position i of the input.
C9_OneResultPerTargetInOrder ==
    batch_pc \in {"returned", "raised"} =>
      /\ batch_pc = "returned"
      /\ Len(batch_results) = Len(requests)
      /\ \A i \in 1..Len(requests) :
           batch_results[i] = ProcessTarget(requests[i], target_fate[i])

\* ---- C11
\* The model call of the generation call that returned last raised.
LastCallRaisedInModel ==
    /\ last_return.outcome.kind \in {"ResourceExhausted", "GoogleAPIError", "Exception"}
    /\ ~last_return.result.raised
    /\ last_return.result.status # "ERROR_INPUT"

\* C11: an exception raised during the model call is classified RATE_LIMIT when
\* it is a resource-exhaustion exception and ERROR_API otherwise, both of them
\* statuses the scheduler takes as retryable.
C11_ExceptionClassification ==
    LastCallRaisedInModel =>
      /\ last_return.result.status =
           IF last_return.outcome.kind = "ResourceExhausted"
           THEN "RATE_LIMIT" ELSE "ERROR_API"
      /\ IsRetryableStatus(last_return.result.status)

\* ---- C12
\* The output item of the pair whose generation call returned last.
LastOutputItem ==
    LET outs == items[last_return.item].generated_outputs
    IN  outs[FindOutput(outs, active_prompts[last_return.prompt].prompt_name)]

\* C12: right after a generation call in which the model gave usable text, the
\* invoker's result is (SUCCESS, text) and the output item holds status SUCCESS
\* and output = text; when the model gave no text, the result is ERROR_EMPTY.
C12_SuccessAndEmptyResults ==
    (pc = "loop" /\ last_return # NoReturn /\ ~last_return.result.raised
       /\ last_return.result.status # "ERROR_INPUT") =>
      /\ last_return.outcome.kind = "text" =>
           /\ last_return.result.status = "SUCCESS"
           /\ last_return.result.output = last_return.outcome.text
           /\ LastOutputItem.status = "SUCCESS"
           /\ LastOutputItem.output = last_return.outcome.text
      /\ last_return.outcome.kind = "empty" =>
           last_return.result.status = "ERROR_EMPTY"

\* ---- C13
\* C13: a step of one run leaves the queues, the cooldown clock, the cycle
\* counter and the position of every other run as they were, and the passing of
\* time changes nothing of a run but the age of its own rate-limit event.
C13_InstancesShareNoState ==
    [][ /\ \A n \in Instances :
             acting' = n => \A m \in Instances \ {n} : inst'[m] = inst[m]
        /\ acting' = 0 =>
             \A m \in Instances :
                inst'[m] = [inst[m] EXCEPT !.last_rate_limit_event_time =
                                               inst'[m].last_rate_limit_event_time]
      ]_vars

\* A generation call of run 2 is in flight while run 1 is inside the cooldown
\* that its own rate-limit event started; run 2 has had no such event.
C13_Witness ==
    /\ inst # <<>>
    /\ InstInCooldown(inst[1])
    /\ inst[1].api_retry_queue # <<>>
    /\ inst[2].pc = "calling"
    /\ inst[2].last_rate_limit_event_time = NoEvent
    /\ acting = 2

\* ---- C14
\* C14: no step of a run changes the items of the request, and when the run has
\* returned, every seeded pair has its output on the working copies, which are
\* the response.
C14_RequestNotMutated ==
    /\ [][request_items' = request_items]_vars
    /\ [](Returned =>
            \A p \in Pairs :
               OutputsNamed(items[p[1]].generated_outputs,
                            active_prompts[p[2]].prompt_name) # {})

\* A run over a request without outputs has returned with outputs written.
C14_Witness ==
    /\ Returned
    /\ endpoint = "enhance"
    /\ \A i \in 1..Len(request_items) : request_items[i].generated_outputs = <<>>
    /\ \A i \in 1..Len(items) : items[i].generated_outputs # <<>>

\* ---- C15
\* C15: process_extract_request_concurrent ends by returning a response, and in
\* a response with success = true every section holds a non-null result.
C15_EverySectionReported ==
    /\ cx_pc # "raised"
    /\ (cx_pc = "returned" /\ cx_response.success) =>
          \A i \in 1..Len(cx_response.sections) :
             cx_response.sections[i].result # None

\* ---- C16
\* C16: when a generation call returns RATE_LIMIT or ERROR_API, the task is
\* appended to the retry queue with api_attempt_count + 1 and its output gets
\* status PENDING_API_RETRY exactly when api_attempt_count + 1 < max_api_retries;
\* in every other case the retry queue is left as it is.  No pair is invoked
\* more than max_api_retries times.
C16_RequeueWithinRetryBudget ==
    /\ [][ (pc = "calling" /\ pc' = "loop") =>
             IF /\ last_return'.result.status \in {"RATE_LIMIT", "ERROR_API"}
                /\ call.api_attempt_count + 1 < max_api_retries
             THEN /\ api_retry_queue' =
                       Append(api_retry_queue,
                              ApiTask(call.item, call.prompt, call.full_prompt_text,
                                      call.api_attempt_count + 1))
                  /\ _get_prompt_status(items'[call.item].generated_outputs,
                         active_prompts[call.prompt].prompt_name) = "PENDING_API_RETRY"
             ELSE api_retry_queue' = api_retry_queue
         ]_vars
    /\ [](\A p \in Pairs : api_calls[p] <= max_api_retries)

\* The last attempt the budget allows has failed with a retryable status and the
\* task was not re-enqueued.
C16_Witness ==
    /\ pc = "loop"
    /\ max_api_retries >= 2
    /\ last_return.result.status = "ERROR_API"
    /\ last_return.api_attempt_count + 1 = max_api_retries
    /\ api_calls[<<last_return.item, last_return.prompt>>] = max_api_retries
    /\ ~InRetryQueue(last_return.item, last_return.prompt)

\* ---- C17
\* The names of prompts of the request that prompt k references.
ReferencedPrompts(k) ==
    { d \in KnownPromptNames(active_prompts) :
        \E j \in 1..Len(active_prompts[k].lesson_properties_to_append) :
            active_prompts[k].lesson_properties_to_append[j] = d }

\* Item i holds an output of prompt name d with status SUCCESS and a value.
HasSuccessOutput(i, d) ==
    \E j \in 1..Len(items[i].generated_outputs) :
        /\ items[i].generated_outputs[j].prompt_name = d
        /\ items[i].generated_outputs[j].status = "SUCCESS"
        /\ items[i].generated_outputs[j].output # None

\* Retries are re-runs of calls made before, with the text resolved then.
RetriesFollowCalls ==
    /\ \A j \in 1..Len(api_retry_queue) :
          /\ api_retry_queue[j].api_attempt_count >= 1
          /\ api_calls[<<api_retry_queue[j].item, api_retry_queue[j].prompt>>] >= 1
    /\ (pc = "calling" /\ call.api_attempt_count >= 1) =>
          api_calls[<<call.item, call.prompt>>] >= 2

\* C17 as stated: a first generation call of prompt B on an item is in flight
\* only if every prompt B references by name has a SUCCESS output with a value on
\* that item; later calls of B are retries of that call.
C17_CalledOnlyWithDependencies ==
    /\ (pc = "calling" /\ call.api_attempt_count = 0) =>
          \A d \in ReferencedPrompts(call.prompt) : HasSuccessOutput(call.item, d)
    /\ RetriesFollowCalls

\* C17 amended: the same, except for the reference "content" on the enhance
\* endpoints, which is taken as the item's content.
C17_CalledOnlyWithDependenciesUnlessContent ==
    /\ (pc = "calling" /\ call.api_attempt_count = 0) =>
          \A d \in ReferencedPrompts(call.prompt) :
             ~(endpoint = "enhance" /\ d = "content") => HasSuccessOutput(call.item, d)
    /\ RetriesFollowCalls

\* A first call of a prompt that references another prompt is in flight.
C17_Witness ==
    /\ pc = "calling"
    /\ call.api_attempt_count = 0
    /\ \E d \in ReferencedPrompts(call.prompt) :
          d # "content" /\ HasSuccessOutput(call.item, d)

\* ---- C18
\* C18: a cycle the loop enters with a retry task waiting and no cooldown running
\* pops the head of the retry queue, calls the model with it, and leaves the
\* dependency queue alone; the dependency queue is touched only in a cycle whose
\* retry queue is empty or whose instance is in cooldown.
C18_RetryQueueFirst ==
    /\ [][ ( /\ pc = "loop"
             /\ processing_cycles' = processing_cycles + 1
             /\ pc' # "done"
             /\ api_retry_queue # <<>>
             /\ ~InCooldown )
           => /\ pc' = "calling"
              /\ call' = Head(api_retry_queue)
              /\ api_retry_queue' = Tail(api_retry_queue)
              /\ data_dependency_deferred_queue' = data_dependency_deferred_queue
              /\ items' = items
         ]_vars
    /\ [][ ( \/ data_dependency_deferred_queue' # data_dependency_deferred_queue
             \/ (pc = "loop" /\ pc' = "calling" /\ call'.api_attempt_count = 0) )
           => (api_retry_queue = <<>> \/ InCooldown)
         ]_vars

\* A retry was popped while dependency-check tasks were waiting.
C18_Witness ==
    /\ pc = "calling"
    /\ call.api_attempt_count >= 1
    /\ data_dependency_deferred_queue # <<>>

\* ---- C19
\* Indices of the prompts of the request that prompt k references by name.
ReferencedIndices(k) ==
    { a \in 1..Len(active_prompts) :
        a # k /\ active_prompts[a].prompt_name \in ReferencedPrompts(k) }

DependencyGaveUp(i, k) ==
    StatusOf(i, k) \in {"DATA_DEPENDENCY_FAILED", "DATA_DEPENDENCY_TIMEOUT"}

\* C19: a prompt B is not given up on (DATA_DEPENDENCY_FAILED or
\* DATA_DEPENDENCY_TIMEOUT) while a prompt A it references still waits in the
\* retry queue for its next attempt; and once the run has returned, every B whose
\* referenced prompts all hold a SUCCESS output has been invoked.
C19_DependentsSurviveRetries ==
    /\ \A p \in Pairs :
          DependencyGaveUp(p[1], p[2]) =>
             \A a \in ReferencedIndices(p[2]) : ~InRetryQueue(p[1], a)
    /\ Returned =>
          \A p \in Pairs :
             ( /\ ReferencedIndices(p[2]) # {}
               /\ \A d \in ReferencedPrompts(p[2]) : HasSuccessOutput(p[1], d) )
             => api_calls[p] >= 1

\* ---- C20
\* A task waits in the retry queue during a cooldown and nothing else is queued.
WaitingOutCooldown ==
    /\ pc = "loop"
    /\ api_retry_queue # <<>>
    /\ InCooldown
    /\ data_dependency_deferred_queue = <<>>

\* C20: from a cycle start where a task waits in the retry queue during a
\* cooldown and the dependency queue is empty, the scheduler's step is a
\* suspension to the end of the cooldown with the task kept, and the loop does
\* not leave on the cycle budget while a task is in the retry queue and the
\* dependency queue is empty.
C20_CooldownWaitKeepsBudget ==
    /\ [][ WaitingOutCooldown =>
             /\ pc' = "loop"
             /\ since_rate_limit_event' >= retry_cooldown_seconds
             /\ api_retry_queue' = api_retry_queue
         ]_vars
    /\ [][ (pc = "loop" /\ pc' = "done" /\ data_dependency_deferred_queue = <<>>)
             => api_retry_queue = <<>>
         ]_vars

\* ---- C21
\* C21: a pair ends with status DATA_DEPENDENCY_TIMEOUT only if its prompt still
\* resolves to MISSING_DEPENDENCY on the item; a prompt whose references are all
\* met, or that has none, never holds DATA_DEPENDENCY_TIMEOUT.
C21_TimeoutOnlyWithUnmetDependency ==
    \A p \in Pairs :
       StatusOf(p[1], p[2]) = "DATA_DEPENDENCY_TIMEOUT" =>
          Resolve(active_prompts[p[2]], items[p[1]]).status = "MISSING_DEPENDENCY"

\* ---- C22
\* The dependency-check task the cycle about to start would take, if the
\* dependency branch is reached.
DependencyTaskUp ==
    /\ pc = "loop"
    /\ data_dependency_deferred_queue # <<>>
    /\ api_retry_queue = <<>> \/ InCooldown
    /\ processing_cycles + 1 <= max_processing_cycles_heuristic

HeadResolves(st) ==
    LET data_task == Head(data_dependency_deferred_queue)
    IN  Resolve(active_prompts[data_task.prompt], items[data_task.item]).status = st

\* C22: a dependency check that finds MISSING_DEPENDENCY re-enqueues the task
\* with one more attempt and status DATA_DEPENDENCY_PENDING exactly when
\* attempt_count + 1 < max_data_dependency_retries, and otherwise drops it with
\* status DATA_DEPENDENCY_FAILED, which happens at the resolution numbered
\* max_data_dependency_retries; no queued task has used up its attempts.
C22_DependencyRetryBudget ==
    /\ [][ (DependencyTaskUp /\ HeadResolves("MISSING_DEPENDENCY") /\ pc' = "loop"
              /\ processing_cycles' = processing_cycles + 1) =>
             LET data_task == Head(data_dependency_deferred_queue)
                 name == active_prompts[data_task.prompt].prompt_name
                 st == _get_prompt_status(items'[data_task.item].generated_outputs, name)
             IN  IF data_task.attempt_count + 1 < max_data_dependency_retries
                 THEN /\ data_dependency_deferred_queue' =
                           Append(Tail(data_dependency_deferred_queue),
                                  DataTask(data_task.item, data_task.prompt,
                                           data_task.attempt_count + 1))
                      /\ st = "DATA_DEPENDENCY_PENDING"
                 ELSE /\ data_dependency_deferred_queue' = Tail(data_dependency_deferred_queue)
                      /\ st = "DATA_DEPENDENCY_FAILED"
                      /\ data_task.attempt_count + 1 = max_data_dependency_retries
         ]_vars
    /\ [](\A j \in 1..Len(data_dependency_deferred_queue) :
            data_dependency_deferred_queue[j].attempt_count < max_data_dependency_retries)

\* A task was re-deferred once and then dropped as DATA_DEPENDENCY_FAILED.
C22_Witness ==
    /\ max_data_dependency_retries = 2
    /\ pc = "loop"
    /\ \E p \in Pairs :
          /\ StatusOf(p[1], p[2]) = "DATA_DEPENDENCY_FAILED"
          /\ api_calls[p] = 0
          /\ \A j \in 1..Len(data_dependency_deferred_queue) :
                <<data_dependency_deferred_queue[j].item,
                  data_dependency_deferred_queue[j].prompt>> # p

\* ---- C23
\* C23: a dependency check that resolves with SUCCESS inside a cooldown window
\* appends the same task, attempt count unchanged, to the dependency queue,
\* starts no generation call and leaves every item's generated_outputs as it was.
C23_CooldownDeferLeavesTaskAndItem ==
    [][ (DependencyTaskUp /\ HeadResolves("SUCCESS") /\ InCooldown
           /\ processing_cycles' = processing_cycles + 1) =>
          /\ data_dependency_deferred_queue' =
                Append(Tail(data_dependency_deferred_queue),
                       Head(data_dependency_deferred_queue))
          /\ pc' = "loop"
          /\ api_calls' = api_calls
          /\ api_retry_queue' = api_retry_queue
          /\ items' = items
      ]_vars

\* A resolvable task has been re-deferred during a cooldown: the first cycle
\* called the other prompt, every later one found the cooldown running.
C23_Witness ==
    /\ pc = "loop"
    /\ InCooldown
    /\ processing_cycles >= 3
    /\ Len(active_prompts) = 2 /\ Len(items) = 1
    /\ Len(data_dependency_deferred_queue) = 1
    /\ HeadResolves("SUCCESS")
    /\ Head(data_dependency_deferred_queue).attempt_count = 0
    /\ api_calls[<<1, Head(data_dependency_deferred_queue).prompt>>] = 0
    /\ StatusOf(1, Head(data_dependency_deferred_queue).prompt) = None

\* ---- C24
InDependencyQueue(i, k) ==
    \E j \in 1..Len(data_dependency_deferred_queue) :
        /\ data_dependency_deferred_queue[j].item = i
        /\ data_dependency_deferred_queue[j].prompt = k

\* C24: when the loop is left, a pair's status becomes DATA_DEPENDENCY_TIMEOUT
\* exactly if its task is still in the dependency queue and its status is
\* DATA_DEPENDENCY_PENDING or unset; every other status stays as it is.
C24_DrainMarksOnlyPending ==
    [][ (pc = "loop" /\ pc' = "done") =>
          \A p \in Pairs :
             LET name == active_prompts[p[2]].prompt_name
                 after == _get_prompt_status(items'[p[1]].generated_outputs, name)
             IN  IF /\ InDependencyQueue(p[1], p[2])
                    /\ StatusOf(p[1], p[2]) \in {"DATA_DEPENDENCY_PENDING", None}
                 THEN after = "DATA_DEPENDENCY_TIMEOUT"
                 ELSE after = StatusOf(p[1], p[2])
      ]_vars

\* The run returned with a task left in the dependency queue whose SUCCESS
\* status the drain kept.
C24_Witness ==
    /\ Returned
    /\ \E p \in Pairs :
          InDependencyQueue(p[1], p[2]) /\ StatusOf(p[1], p[2]) = "SUCCESS"

\* ---- C25
Queued(queue, p) ==
    \E j \in 1..Len(queue) : queue[j].item = p[1] /\ queue[j].prompt = p[2]

\* C25: a generation call that returns a status other than SUCCESS, RATE_LIMIT
\* and ERROR_API leaves that status and its message on the pair's output item,
\* puts the task on neither queue and does not restart the cooldown clock; a
\* pair is called only from a queue, and enters a queue only from a queue or
\* from its own call in flight, so that task is not invoked again.
C25_TerminalErrorIsFinal ==
    /\ [][ ( /\ pc = "calling" /\ pc' = "loop"
             /\ last_return'.result.status \notin {"SUCCESS", "RATE_LIMIT", "ERROR_API"} )
           => LET p == <<call.item, call.prompt>>
                  outs == items'[p[1]].generated_outputs
                  item == outs[FindOutput(outs, active_prompts[p[2]].prompt_name)]
              IN  /\ item.status = last_return'.result.status
                  /\ item.output = last_return'.result.output
                  /\ api_retry_queue' = api_retry_queue
                  /\ data_dependency_deferred_queue' = data_dependency_deferred_queue
                  /\ ~Queued(api_retry_queue', p)
                  /\ ~Queued(data_dependency_deferred_queue', p)
                  /\ IF since_rate_limit_event = NoEvent
                     THEN since_rate_limit_event' = NoEvent
                     ELSE since_rate_limit_event' >= since_rate_limit_event
         ]_vars
    /\ [][ \A p \in Pairs :
             /\ api_calls'[p] > api_calls[p] =>
                  Queued(api_retry_queue, p) \/ Queued(data_dependency_deferred_queue, p)
             /\ (Queued(api_retry_queue', p) \/ Queued(data_dependency_deferred_queue', p)) =>
                  \/ Queued(api_retry_queue, p)
                  \/ Queued(data_dependency_deferred_queue, p)
                  \/ (pc = "calling" /\ call.item = p[1] /\ call.prompt = p[2])
         ]_vars

\* A call has returned a terminal error after an earlier call had started the
\* cooldown clock.
C25_Witness ==
    /\ pc = "loop"
    /\ last_return.result.status = "ERROR_NO_RESPONSE"
    /\ LastOutputItem.status = "ERROR_NO_RESPONSE"
    /\ ~InRetryQueue(last_return.item, last_return.prompt)
    /\ api_retry_queue = <<>>
    /\ since_rate_limit_event # NoEvent

\* ---- C26
\* C26: the cooldown clock is restarted by exactly the generation calls that
\* return RATE_LIMIT or ERROR_API, the last attempt of a task included; no other
\* step starts it, none clears it, and while it runs no generation call is
\* started for any task.
C26_CooldownClock ==
    /\ [][ (pc = "calling" /\ pc' = "loop") =>
             IF last_return'.result.status \in {"RATE_LIMIT", "ERROR_API"}
             THEN since_rate_limit_event' # NoEvent /\ since_rate_limit_event' <= MaxStep
             ELSE IF since_rate_limit_event = NoEvent
                  THEN since_rate_limit_event' = NoEvent
                  ELSE since_rate_limit_event' >= since_rate_limit_event
         ]_vars
    /\ [][ /\ (since_rate_limit_event = NoEvent /\ since_rate_limit_event' # NoEvent)
                => pc = "calling"
           /\ since_rate_limit_event # NoEvent => since_rate_limit_event' # NoEvent
           /\ pc # "calling" /\ since_rate_limit_event # NoEvent
                => since_rate_limit_event' >= since_rate_limit_event
         ]_vars
    /\ [][ (pc = "loop" /\ pc' = "calling") => ~InCooldown ]_vars

\* The last attempt of a task failed with ERROR_API and started a cooldown that
\* holds back another task, which is still to be called.
C26_Witness ==
    /\ pc = "loop"
    /\ last_return.result.status = "ERROR_API"
    /\ last_return.api_attempt_count + 1 = max_api_retries
    /\ ~InRetryQueue(last_return.item, last_return.prompt)
    /\ InCooldown
    /\ data_dependency_deferred_queue # <<>>
    /\ HeadResolves("SUCCESS")

C28_ScenarioDeferredThenSuccess ==
    (/\ endpoint = "enhance"
     /\ active_prompts = <<P1, P2needs1>>
     /\ Len(items) = 2
     /\ every_call_succeeded) =>
       /\ (pc = "calling" /\ call.item = 1 /\ call.prompt = 2) =>
             /\ processing_cycles > 2
             /\ HasSuccessOutput(1, "p1")
       /\ Returned => StatusOf(1, 2) = "SUCCESS"

\* ---- C29
\* The output item of pair p in the items its, blank if there is none.
OutputOf(its, p) ==
    LET outs == its[p[1]].generated_outputs
        idx == FindOutput(outs, active_prompts[p[2]].prompt_name)
    IN  IF idx = 0 THEN GeneratedContentItem("", None, None) ELSE outs[idx]

\* C29: at most one generation call is outstanding: a task is started only when
\* no call is in flight and the result of every call made so far is on its item,
\* nothing is started or written while a call is in flight, and a step of the
\* loop writes the output of at most one task.
C29_OneTaskAtATime ==
    /\ [][ (processing_cycles' # processing_cycles \/ api_calls' # api_calls) =>
             /\ pc = "loop" /\ call = NoCall
             /\ \A p \in Pairs : api_calls[p] >= 1 => OutputOf(items, p).status # None
         ]_vars
    /\ [][ pc = "calling" =>
             /\ call' = NoCall
             /\ data_dependency_deferred_queue' = data_dependency_deferred_queue
         ]_vars
    /\ [][ pc' # "done" =>
             Cardinality({ p \in Pairs : OutputOf(items', p) # OutputOf(items, p) }) <= 1
         ]_vars
    /\ [](pc = "calling" <=> call # NoCall)

\* A call is outstanding while other tasks wait, after an earlier call's result
\* was written.
C29_Witness ==
    /\ pc = "calling"
    /\ data_dependency_deferred_queue # <<>>
    /\ \E p \in Pairs :
          /\ p # <<call.item, call.prompt>>
          /\ api_calls[p] >= 1
          /\ OutputOf(items, p).status # None

\* ---- C30
\* C30: a call of a resolver leaves the item as it was: content, extension
\* fields and generated_outputs (number, order, statuses, outputs) are the same
\* after the call as before, whether it returns SUCCESS or MISSING_DEPENDENCY.
C30_ResolverLeavesItem ==
    [][ (rs_prompt = 0 /\ rs_prompt' # 0) =>
          /\ rs_item' = rs_item
          /\ rs_result'.status \in {"SUCCESS", "MISSING_DEPENDENCY"}
      ]_vars

\* A resolver has returned MISSING_DEPENDENCY for a prompt whose referenced
\* prompt has no output on the item, and the item still has none.
C30_Witness ==
    /\ rs_prompt # 0
    /\ rs_result.status = "MISSING_DEPENDENCY"
    /\ \E j \in 1..Len(rs_prompts[rs_prompt].lesson_properties_to_append) :
          LET d == rs_prompts[rs_prompt].lesson_properties_to_append[j]
          IN  /\ d \in KnownPromptNames(rs_prompts)
              /\ FindOutput(rs_item.generated_outputs, d) = 0

\* ---- C31
\* The literal the resolver called takes as the item's content.
ContentKey == IF rs_resolver = "enhance" THEN "content" ELSE None

\* A reference that is neither the content literal, nor the name of a prompt of
\* the request, nor an extension field of the item.
Unresolvable(key) ==
    /\ key # ContentKey
    /\ key \notin KnownPromptNames(rs_prompts)
    /\ key \notin DOMAIN rs_item.model_extra

\* References of the resolved prompt, by position.
ResolvedReferences == rs_prompts[rs_prompt].lesson_properties_to_append

\* The prior prompt `key` holds a usable output on the item.
ReferenceMet(key) ==
    LET idx == FindOutput(rs_item.generated_outputs, key)
    IN  idx # 0 /\ DependencyMet(rs_item.generated_outputs[idx])

\* C31: an unresolvable reference does not fail resolution and adds nothing to
\* the text: the resolver returns SUCCESS whenever every reference to a prompt
\* of the request is met, and the text then has one fragment for each of the
\* other references and none for the unresolvable ones.
C31_UnresolvableReferenceOmitted ==
    rs_prompt # 0 =>
      LET refs == ResolvedReferences
          prior == { j \in 1..Len(refs) :
                       refs[j] # ContentKey /\ refs[j] \in KnownPromptNames(rs_prompts) }
          kept == { j \in 1..Len(refs) : ~Unresolvable(refs[j]) }
      IN  /\ (\A j \in prior : ReferenceMet(refs[j])) => rs_result.status = "SUCCESS"
          /\ rs_result.status = "SUCCESS" =>
                /\ Len(rs_result.text.fragments) = Cardinality(kept)
                /\ \A f \in 1..Len(rs_result.text.fragments), j \in 1..Len(refs) :
                      Unresolvable(refs[j]) =>
                         rs_result.text.fragments[f].label # TitleCase(refs[j])

\* A prompt with an unresolvable reference between two resolvable ones was
\* resolved with SUCCESS.
C31_Witness ==
    /\ rs_prompt # 0
    /\ rs_result.status = "SUCCESS"
    /\ Len(rs_result.text.fragments) = 2
    /\ Len(ResolvedReferences) = 3
    /\ Unresolvable(ResolvedReferences[2])

\* ---- C32
\* C32: a target whose info cannot be obtained, whose file is larger than 50 MB
\* or whose upload fails returns an error result with success false and never
\* enters its scheduler, and a file larger than 50 MB is never uploaded.
C32_TargetFailuresReturnError ==
    /\ tg_pc = "returned"
         /\ (\/ ~tg_file.exists
             \/ tg_file.size_mb > SizeLimitMB
             \/ upload_pdf_for_analysis_by_file_id(tg_file) = Nothing)
       => tg_result.success = FALSE /\ ~tg_scheduler_ran
    /\ tg_pc # "idle" /\ tg_file.exists /\ tg_file.size_mb > SizeLimitMB
       => tg_uploads = 0

\* ---- C33
\* C33: a call of process_extract_request_with_preloaded_files_concurrent whose
\* request has sections with a genai_file_name ends by returning a response
\* that lists exactly those sections, each once and in input order, and never
\* holds more coroutines than max_concurrent_requests.
C33_PreloadedSectionsListedInOrder ==
    /\ pl_tasks <= pl_batch_size
    /\ pl_pc \in {"returned", "raised"}
         /\ sections_with_genai_files(pl_sections) # <<>>
       => /\ pl_pc = "returned"
          /\ pl_response.sections = sections_with_genai_files(pl_sections)

\* ---- C34
\* How many tasks of `queue` are for the pair p.
Occurrences(queue, p) ==
    Cardinality({ j \in 1..Len(queue) : queue[j].item = p[1] /\ queue[j].prompt = p[2] })

\* The generation call of the pair p is in flight.
InProcess(p) == pc = "calling" /\ call.item = p[1] /\ call.prompt = p[2]

\* How many places hold the pair p.
Places(p) ==
    Occurrences(data_dependency_deferred_queue, p) + Occurrences(api_retry_queue, p)
      + (IF InProcess(p) THEN 1 ELSE 0)

\* The pair p is in no queue and not in process.
FinishedPair(p) == Places(p) = 0

\* C34: during a scheduler run every seeded pair is in at most one place (once
\* in the dependency queue, once in the retry queue, or in process), every
\* queued task is for a seeded pair, the queued, in-process and finished pairs
\* add up to the pairs seeded, all of which start in the dependency queue, and
\* a finished pair stays finished.
C34_EachPairInOnePlace ==
    /\ Len(data_dependency_deferred_queue) = Cardinality(Pairs)
    /\ [](/\ \A p \in Pairs : Places(p) <= 1
          /\ \A j \in 1..Len(data_dependency_deferred_queue) :
                <<data_dependency_deferred_queue[j].item,
                  data_dependency_deferred_queue[j].prompt>> \in Pairs
          /\ \A j \in 1..Len(api_retry_queue) :
                <<api_retry_queue[j].item, api_retry_queue[j].prompt>> \in Pairs
          /\ Len(data_dependency_deferred_queue) + Len(api_retry_queue)
               + (IF pc = "calling" THEN 1 ELSE 0)
               + Cardinality({ p \in Pairs : FinishedPair(p) })
             = Cardinality(Pairs))
    /\ [][\A p \in Pairs : FinishedPair(p) => FinishedPair(p)']_vars

\* Between two cycles one pair waits in the retry queue, another in the
\* dependency queue, and a third is finished.
C34_Witness ==
    /\ pc = "loop"
    /\ api_retry_queue # <<>>
    /\ data_dependency_deferred_queue # <<>>
    /\ \E p \in Pairs : FinishedPair(p)
    /\ \A p \in Pairs : Places(p) <= 1

NoCooldownEver == retry_cooldown_seconds = 0 \/ since_rate_limit_event = NoEvent

\* C36: while no cooldown is ever active the cycle budget never stops the loop:
\* a cycle that finds work is within the budget, and a run that returns has
\* left the loop with both queues empty, within the budget, and with no pair
\* marked DATA_DEPENDENCY_TIMEOUT.
C36_BudgetSufficesWithoutCooldown ==
    NoCooldownEver =>
      /\ (/\ pc = "loop"
          /\ data_dependency_deferred_queue # <<>> \/ api_retry_queue # <<>>)
         => processing_cycles + 1 <= max_processing_cycles_heuristic
      /\ Returned =>
           /\ data_dependency_deferred_queue = <<>>
           /\ api_retry_queue = <<>>
           /\ processing_cycles <= max_processing_cycles_heuristic
           /\ \A p \in Pairs : StatusOf(p[1], p[2]) # "DATA_DEPENDENCY_TIMEOUT"

\* A run without cooldown returned after a pair was called max_api_retries = 3
\* times and another pair was re-deferred and then failed on its dependency.
C36_Witness ==
    /\ Returned
    /\ retry_cooldown_seconds = 0
    /\ max_api_retries = 3
    /\ max_data_dependency_retries = 2
    /\ \E p \in Pairs : api_calls[p] = 3
    /\ \E p \in Pairs : StatusOf(p[1], p[2]) = "DATA_DEPENDENCY_FAILED"

\* ---- C37
\* The prompts of the request do not depend on each other in a cycle.
AcyclicRequest == active_prompts # <<P1needs2, P2needs1>>

\* C37: a run on an acyclic request in which every generation call returned
\* text on its first attempt ends with every pair at status SUCCESS.
C37_AcyclicRequestAllSucceed ==
    Returned /\ AcyclicRequest /\ every_call_succeeded
      => \A p \in Pairs : StatusOf(p[1], p[2]) = "SUCCESS"

\* ---- C39
\* How many of the model calls made so far raised.
RaisedCalls ==
    Cardinality({ j \in 1..Len(an_outcomes) : an_outcomes[j] \in RaisingOutcomes })

\* The function has returned the value it returns when all retries failed.
ReturnedFailureResult ==
    /\ an_pc = "returned"
    /\ an_valid_input
    /\ an_result = ResultOfExhaustion(an_function, an_last_error)

\* At most max_retries calls are made, only the last call made may have
\* returned, a call that returned ended the function at once, and a cooldown
\* sleep was begun after each raising call but the max_retries-th.
RetryLoopShape ==
    /\ Len(an_outcomes) <= an_max_retries
    /\ \A j \in 1..Len(an_outcomes) :
          an_outcomes[j] \in ReturningOutcomes => j = Len(an_outcomes) /\ an_pc = "returned"
    /\ an_retry_count = RaisedCalls
    /\ an_waits = IF RaisedCalls < an_max_retries THEN RaisedCalls ELSE an_max_retries - 1
    /\ an_pc = "sleeping" => RaisedCalls = Len(an_outcomes)

====
